---- MODULE Spec2Model ----
(***************************************************************************)
(* markit-mistral: the markdown post-processing pipeline of                *)
(* src/markit_mistral/markdown_formatter.py.                               *)
(*                                                                         *)
(* A text is a sequence of one-character strings; a code point outside     *)
(* ASCII is named by its "U+XXXX" string.  None is <<>> and a value v that *)
(* may be None is <<v>>.  Python's re.sub is modelled by ReSub: leftmost,  *)
(* non-overlapping matches, each pattern given by the end of its match at  *)
(* a position (0: no match) and the text that replaces it.                 *)
(***************************************************************************)
EXTENDS Naturals, Integers, Sequences, FiniteSets, TLC

VARIABLES
    pc,               \* where the caller is: "idle", "called", "recalled", "loop", "joined"
    op,               \* the function that was called
    arg,              \* its argument (a text)
    res,              \* its result
    res2,             \* the result of calling it again on res
    span,             \* the math span arg was built around: [form, body, before, after]
    formatter,        \* the MarkdownFormatter: [preserve_math, base64_images]
    pages,            \* the OCR pages: each <<>> (no markdown attribute) or <<text>>
    document_title,   \* <<>> (None) or <<text>>
    image_map,        \* format_document: the dict of _create_image_map
    page_idx,         \* format_document: index (0-based) of the next page of the loop
    markdown_parts,   \* format_document: the parts collected so far
    input_bytes,      \* the bytes of the file at input_path
    processor,        \* the OCRProcessor: [max_retries, retry_delay, max_file_size_mb]
    attempt,          \* _process_with_retry: the attempt of the loop (0-based)
    last_exception,   \* _process_with_retry: <<>> (None) or <<the classified error>>
    trace,            \* what was done outside: OCR requests and sleeps, in order
    saved_images,     \* extract_images: the paths saved so far
    files,            \* the files written to output_dir: <<name, bytes>> in order
    image_idx         \* extract_images: index (0-based) of the next image of the page

\* what format_document works on
docVars == <<formatter, pages, document_title, image_map, page_idx, markdown_parts>>

\* what the OCR processor works on
ocrVars == <<processor, attempt, last_exception, trace, saved_images, files, image_idx>>

vars == <<pc, op, arg, res, res2, span, docVars, input_bytes, ocrVars>>

----------------------------------------------------------------------------
(* Texts *)

\* The text of a string literal, one character per element.
Chars(str) == [i \in 1..Len(str) |-> SubSeq(str, i, i)]

\* f(x), with x evaluated before f is entered.
Then(x, f(_)) == CHOOSE r \in {f(v) : v \in {x}} : TRUE

Max(a, b) == IF a >= b THEN a ELSE b
Min(a, b) == IF a <= b THEN a ELSE b

\* All sequences over alphabet of length at most n.
SeqsUpTo(alphabet, n) == UNION {[1..k -> alphabet] : k \in 0..n}

RECURSIVE Flatten(_)
Flatten(ss) ==
    IF ss = <<>> THEN <<>>
    ELSE IF Len(ss) = 1 THEN ss[1]
    ELSE Flatten(SubSeq(ss, 1, Len(ss) \div 2))
             \o Flatten(SubSeq(ss, Len(ss) \div 2 + 1, Len(ss)))

\* sep.join(parts)
RECURSIVE Join(_, _)
Join(sep, parts) ==
    IF parts = <<>> THEN <<>>
    ELSE IF Len(parts) = 1 THEN parts[1]
    ELSE parts[1] \o sep \o Join(sep, Tail(parts))

Digits == {"0", "1", "2", "3", "4", "5", "6", "7", "8", "9"}
LowerLetters == {"a", "b", "c", "d", "e", "f", "g", "h", "i", "j", "k", "l", "m",
                 "n", "o", "p", "q", "r", "s", "t", "u", "v", "w", "x", "y", "z"}
UpperLetters == {"A", "B", "C", "D", "E", "F", "G", "H", "I", "J", "K", "L", "M",
                 "N", "O", "P", "Q", "R", "S", "T", "U", "V", "W", "X", "Y", "Z"}
Letters == LowerLetters \cup UpperLetters
\* str.isalnum() on one character
IsAlnum(c) == c \in Letters \cup Digits
\* the regex class \s
IsSpace(c) == c \in {" ", "\n", "\t", "\r", "\f"}
\* The backtick, which no string of this language can hold, by its code point.
Backtick == "U+0060"
\* a code point outside ASCII, named "U+XXXX"
IsNonAscii(c) == Len(c) > 1 /\ c # Backtick

\* str.lower() on one ASCII character
LowerChar(c) ==
    CASE c = "A" -> "a" [] c = "B" -> "b" [] c = "C" -> "c" [] c = "D" -> "d"
      [] c = "E" -> "e" [] c = "F" -> "f" [] c = "G" -> "g" [] c = "H" -> "h"
      [] c = "I" -> "i" [] c = "J" -> "j" [] c = "K" -> "k" [] c = "L" -> "l"
      [] c = "M" -> "m" [] c = "N" -> "n" [] c = "O" -> "o" [] c = "P" -> "p"
      [] c = "Q" -> "q" [] c = "R" -> "r" [] c = "S" -> "s" [] c = "T" -> "t"
      [] c = "U" -> "u" [] c = "V" -> "v" [] c = "W" -> "w" [] c = "X" -> "x"
      [] c = "Y" -> "y" [] c = "Z" -> "z" [] OTHER -> c

Lower(s) == [i \in 1..Len(s) |-> LowerChar(s[i])]

\* The characters of s that satisfy keep, in order.
SelectChars(s, keep) == SelectSeq(s, LAMBDA c : c \in keep)

\* The end (exclusive) of the longest run of characters of cls starting at i.
RunEnd(s, i, cls) ==
    IF i > Len(s) THEN i
    ELSE CHOOSE e \in i..(Len(s) + 1) :
             /\ e = Len(s) + 1 \/ s[e] \notin cls
             /\ \A j \in i..(e - 1) : s[j] \in cls

\* The end (exclusive) of the longest run of characters outside cls starting at i.
RunEndNot(s, i, cls) ==
    IF i > Len(s) THEN i
    ELSE CHOOSE e \in i..(Len(s) + 1) :
             /\ e = Len(s) + 1 \/ s[e] \in cls
             /\ \A j \in i..(e - 1) : s[j] \notin cls

SpaceChars == {" ", "\n", "\t", "\r", "\f"}
SkipSpaces(s, i) == RunEnd(s, i, SpaceChars)

\* re.sub: ends[i] is the end (exclusive) of the match that starts at i, 0 when
\* the pattern does not match there; reps[i] is the text replacing that match.
\* starts holds the positions the pattern matches at; the scan goes from i to the
\* leftmost of them, copies the text before it, and resumes after the match.
RECURSIVE ReSubFrom(_, _, _, _, _)
ReSubFrom(s, i, starts, ends, reps) ==
    LET ahead == {j \in starts : j >= i}
    IN  IF ahead = {} THEN SubSeq(s, i, Len(s))
        ELSE LET j == CHOOSE x \in ahead : \A y \in ahead : x <= y
             IN  SubSeq(s, i, j - 1) \o reps[j] \o ReSubFrom(s, ends[j], starts, ends, reps)

ReSub(s, ends, reps) ==
    ReSubFrom(s, 1, {j \in 1..Len(s) : ends[j] > 0}, ends, reps)

\* str.strip(chars) / str.lstrip / str.rstrip
RECURSIVE LStrip(_, _)
LStrip(s, cls) ==
    IF s # <<>> /\ Head(s) \in cls THEN LStrip(Tail(s), cls) ELSE s

RECURSIVE RStrip(_, _)
RStrip(s, cls) ==
    IF s # <<>> /\ s[Len(s)] \in cls THEN RStrip(SubSeq(s, 1, Len(s) - 1), cls) ELSE s

Strip(s, cls) == RStrip(LStrip(s, cls), cls)

----------------------------------------------------------------------------
(* title_to_slug *)

_MAX_SLUG_LENGTH == 50

\* unicodedata.normalize("NFKD", c) for the code points of the model's titles
NFKD(c) ==
    CASE c = "U+00E9" -> <<"e", "U+0301">>      \* e with acute: e + combining acute
      [] c = "U+FB01" -> <<"f", "i">>           \* the ligature fi
      [] c = "U+00A0" -> <<" ">>                \* no-break space
      [] OTHER -> <<c>>                         \* ASCII, U+00DF, U+4E2D: unchanged

\* bytes.decode() after str.encode("ascii", "ignore"): the ASCII characters of s
DropNonAscii(s) == SelectSeq(s, LAMBDA c : ~IsNonAscii(c))

\* unicodedata.normalize("NFKD", title).encode("ascii", "ignore").decode()
AsciiFold(title) == DropNonAscii(Flatten([i \in 1..Len(title) |-> NFKD(title[i])]))

\* re.sub(r"[\s_]+", "-", slug)
HyphenateSpaces(slug) ==
    ReSub(slug,
          [i \in 1..Len(slug) |->
              IF slug[i] \in SpaceChars \cup {"_"}
              THEN RunEnd(slug, i, SpaceChars \cup {"_"}) ELSE 0],
          [i \in 1..Len(slug) |-> <<"-">>])

SlugChars == LowerLetters \cup Digits \cup {"-"}

\* re.sub(r"[^a-z0-9-]", "", slug)
StripSpecial(slug) == SelectChars(slug, SlugChars)

\* re.sub(r"-{2,}", "-", slug)
CollapseHyphens(slug) ==
    ReSub(slug,
          [i \in 1..Len(slug) |->
              IF RunEnd(slug, i, {"-"}) >= i + 2 THEN RunEnd(slug, i, {"-"}) ELSE 0],
          [i \in 1..Len(slug) |-> <<"-">>])

\* if len(slug) > __MAX_SLUG_LENGTH: slug = slug[:__MAX_SLUG_LENGTH]
TruncateKeepHyphen(slug) ==
    IF Len(slug) > _MAX_SLUG_LENGTH THEN SubSeq(slug, 1, _MAX_SLUG_LENGTH) ELSE slug

\* if len(slug) > __MAX_SLUG_LENGTH: slug = slug[:__MAX_SLUG_LENGTH].rstrip("-")
Truncate(slug) ==
    IF Len(slug) > _MAX_SLUG_LENGTH
    THEN RStrip(SubSeq(slug, 1, _MAX_SLUG_LENGTH), {"-"})
    ELSE slug

Document == Chars("document")

\* return slug: the fallback forgotten
title_to_slug_NoDefault(title) ==
    Truncate(Strip(CollapseHyphens(StripSpecial(HyphenateSpaces(
        Lower(AsciiFold(title))))), {"-"}))

title_to_slug(title) ==
    LET slug == Truncate(Strip(CollapseHyphens(StripSpecial(HyphenateSpaces(
                    Lower(AsciiFold(title))))), {"-"}))
    IN  IF slug = <<>> THEN Document ELSE slug

----------------------------------------------------------------------------
(* extract_title_from_markdown *)

_TRIVIAL_HEADINGS ==
    {Chars("introduction"), Chars("abstract"), Chars("table of contents"),
     Chars("contents"), Chars("references"), Chars("bibliography"),
     Chars("acknowledgements"), Chars("acknowledgments"), Chars("appendix"),
     Chars("index"), Chars("preface"), Chars("foreword"), Chars("summary"),
     Chars("overview"), Chars("disclaimer"), Chars("copyright"),
     Chars("list of figures"), Chars("list of tables")}

\* the class [\divxlcm] under re.IGNORECASE
NumberingChars == Digits \cup {"i", "v", "x", "l", "c", "m", "I", "V", "X", "L", "C", "M"}
\* the class [\.\)\s]
NumberingSeps == SpaceChars \cup {".", ")"}

\* re.sub(r"^[\divxlcm]+[\.\)\s]+", "", normalized, flags=re.IGNORECASE)
StripNumbering(normalized) ==
    LET a == RunEnd(normalized, 1, NumberingChars)
        b == RunEnd(normalized, a, NumberingSeps)
    IN  IF a > 1 /\ b > a THEN SubSeq(normalized, b, Len(normalized)) ELSE normalized

_is_trivial_heading(heading) ==
    Strip(StripNumbering(Lower(Strip(heading, SpaceChars))), SpaceChars)
        \in _TRIVIAL_HEADINGS

\* ^ under re.MULTILINE
AtLineStart(s, i) == i = 1 \/ s[i - 1] = "\n"

\* The match of r"^#\s+(.+)$" (n = 1) or r"^##\s+(.+)$" (n = 2), re.MULTILINE,
\* at position i: <<start of group 1, end of the match>>, or <<>>.  \s+ takes
\* all the white space it can (line breaks included) and gives back what (.+),
\* which takes the rest of a line, needs.
HeadingMatch(s, i, n) ==
    IF ~(AtLineStart(s, i) /\ i + n - 1 <= Len(s) /\ \A j \in i..(i + n - 1) : s[j] = "#")
    THEN <<>>
    ELSE LET w == i + n
             j == SkipSpaces(s, w)
             K == {k \in (w + 1)..j : k <= Len(s) /\ s[k] # "\n"}
         IN  IF K = {} THEN <<>>
             ELSE LET k == CHOOSE x \in K : \A y \in K : y <= x
                  IN  <<k, RunEndNot(s, k, {"\n"})>>

\* [match.group(1).strip() for match in re.finditer(pattern, markdown, re.MULTILINE)]
RECURSIVE HeadingTitlesFrom(_, _, _)
HeadingTitlesFrom(s, i, n) ==
    LET ahead == {j \in i..Len(s) : HeadingMatch(s, j, n) # <<>>}
    IN  IF ahead = {} THEN <<>>
        ELSE LET m == HeadingMatch(s, CHOOSE x \in ahead : \A y \in ahead : x <= y, n)
             IN  <<Strip(SubSeq(s, m[1], m[2] - 1), SpaceChars)>>
                     \o HeadingTitlesFrom(s, m[2], n)

HeadingTitles(s, n) == HeadingTitlesFrom(s, 1, n)

\* The first title of titles that is not trivial: <<title>>, or <<>>.
RECURSIVE FirstNonTrivial(_)
FirstNonTrivial(titles) ==
    IF titles = <<>> THEN <<>>
    ELSE IF ~_is_trivial_heading(Head(titles)) THEN <<Head(titles)>>
    ELSE FirstNonTrivial(Tail(titles))

\* hasattr(page, "markdown") and page.markdown
HasMarkdown(page) == page # <<>> /\ page[1] # <<>>

\* One pass over the pages for headings of level n, from page k on.
RECURSIVE TitlePass(_, _, _)
TitlePass(ps, k, n) ==
    IF k > Len(ps) THEN <<>>
    ELSE LET found == IF HasMarkdown(ps[k])
                      THEN FirstNonTrivial(HeadingTitles(ps[k][1], n)) ELSE <<>>
         IN  IF found # <<>> THEN found ELSE TitlePass(ps, k + 1, n)

\* A single pass that takes each page's H1, else its H2, before the next page.
RECURSIVE TitlePagewise(_, _)
TitlePagewise(ps, k) ==
    IF k > Len(ps) THEN <<>>
    ELSE LET h1 == IF HasMarkdown(ps[k])
                   THEN FirstNonTrivial(HeadingTitles(ps[k][1], 1)) ELSE <<>>
             h2 == IF HasMarkdown(ps[k])
                   THEN FirstNonTrivial(HeadingTitles(ps[k][1], 2)) ELSE <<>>
         IN  IF h1 # <<>> THEN h1 ELSE IF h2 # <<>> THEN h2 ELSE TitlePagewise(ps, k + 1)

extract_title_PerPage(ps) == TitlePagewise(ps, 1)

\* The first pass alone: level-1 headings only.
extract_title_H1Only(ps) == TitlePass(ps, 1, 1)

extract_title_from_markdown(ps) ==
    LET h1 == TitlePass(ps, 1, 1)
    IN  IF h1 # <<>> THEN h1 ELSE TitlePass(ps, 1, 2)

----------------------------------------------------------------------------
(* MarkdownFormatter: the Math Normalizer *)

\* The characters of lit stand in s at position i.
LitAt(s, i, lit) ==
    /\ i >= 1
    /\ i + Len(lit) - 1 <= Len(s)
    /\ \A k \in 1..Len(lit) : s[i + k - 1] = lit[k]

CharAt(s, i, c) == i >= 1 /\ i <= Len(s) /\ s[i] = c

\* The match of r"\\?\\\(([^)]+)\\?\\\)" (open "(", close ")") or of
\* r"\\?\\\[([^\]]+)\\?\\\]" (open "[", close "]") at i: <<start of group 1, end
\* of group 1 (exclusive), end of the match>>, or <<>>.  The group takes all it
\* can up to the first close character and gives back only the one backslash
\* the closing delimiter needs: of a doubled closing backslash the first stays
\* in the group.
EscapedMathMatch(s, i, open, close) ==
    LET c == IF LitAt(s, i, <<"\\", "\\", open>>) THEN i + 3
             ELSE IF LitAt(s, i, <<"\\", open>>) THEN i + 2
             ELSE 0
        p == RunEndNot(s, c, {close})
    IN  IF c > 0 /\ p <= Len(s) /\ p - 1 >= c + 1 /\ s[p - 1] = "\\"
        THEN <<c, p - 1, p + 1>>
        ELSE <<>>

\* re.sub of an escaped math form by group 1 between delim and delim
SubEscapedMath(s, open, close, delim) ==
    ReSub(s,
          [i \in 1..Len(s) |->
              IF EscapedMathMatch(s, i, open, close) = <<>> THEN 0
              ELSE EscapedMathMatch(s, i, open, close)[3]],
          [i \in 1..Len(s) |->
              LET m == EscapedMathMatch(s, i, open, close)
              IN  IF m = <<>> THEN <<>> ELSE delim \o SubSeq(s, m[1], m[2] - 1) \o delim])

\* The match of r"\$\s*\$([^$]+)\$\s*\$" at i: <<start of group 1, end of group 1
\* (exclusive), end of the match>>, or <<>>.
MalformedDisplayMatch(s, i) ==
    IF ~CharAt(s, i, "$") THEN <<>>
    ELSE LET j == SkipSpaces(s, i + 1)
             p == RunEndNot(s, j + 1, {"$"})
             k == SkipSpaces(s, p + 1)
         IN  IF CharAt(s, j, "$") /\ p > j + 1 /\ CharAt(s, p, "$") /\ CharAt(s, k, "$")
             THEN <<j + 1, p, k + 1>>
             ELSE <<>>

\* re.sub(r"\$\s*\$([^$]+)\$\s*\$", r"$$\1$$", content)
FixMalformedDelimiters(s) ==
    ReSub(s,
          [i \in 1..Len(s) |->
              IF MalformedDisplayMatch(s, i) = <<>> THEN 0 ELSE MalformedDisplayMatch(s, i)[3]],
          [i \in 1..Len(s) |->
              LET m == MalformedDisplayMatch(s, i)
              IN  IF m = <<>> THEN <<>>
                  ELSE <<"$", "$">> \o SubSeq(s, m[1], m[2] - 1) \o <<"$", "$">>])

\* re.sub(r"([^\n])\$\$", r"\1\n$$", content)
BreakBeforeDisplay(s) ==
    ReSub(s,
          [i \in 1..Len(s) |->
              IF s[i] # "\n" /\ LitAt(s, i + 1, <<"$", "$">>) THEN i + 3 ELSE 0],
          [i \in 1..Len(s) |-> <<s[i], "\n", "$", "$">>])

\* re.sub(r"\$\$([^\n])", r"$$\n\1", content)
BreakAfterDisplay(s) ==
    ReSub(s,
          [i \in 1..Len(s) |->
              IF LitAt(s, i, <<"$", "$">>) /\ i + 2 <= Len(s) /\ s[i + 2] # "\n"
              THEN i + 3 ELSE 0],
          [i \in 1..Len(s) |->
              IF i + 2 <= Len(s) THEN <<"$", "$", "\n", s[i + 2]>> ELSE <<>>])

_normalize_math_delimiters(content) ==
    Then(Then(Then(Then(SubEscapedMath(content, "(", ")", <<"$">>),
                        LAMBDA c : SubEscapedMath(c, "[", "]", <<"$", "$">>)),
                   FixMalformedDelimiters),
              BreakBeforeDisplay),
         BreakAfterDisplay)

MathOperators == {"+", "-", "="}

\* Whether the loop of enhance_inline_math puts spaces around the character at i:
\* (the test of brace_depth aside) an operator with a character before and
\* after it, both alphanumeric.
SpacedOperatorAt(math_content, i) ==
    /\ math_content[i] \in MathOperators
    /\ i > 1
    /\ i < Len(math_content)
    /\ IsAlnum(math_content[i - 1])
    /\ IsAlnum(math_content[i + 1])

\* brace_depth after the character at i has been counted
DepthAfter(brace_depth, ch) ==
    IF ch = "{" THEN brace_depth + 1
    ELSE IF ch = "}" THEN Max(0, brace_depth - 1)
    ELSE brace_depth

\* The while loop of enhance_inline_math from index i (1-based) on.
RECURSIVE EnhanceLoop(_, _, _, _)
EnhanceLoop(math_content, i, brace_depth, result) ==
    IF i > Len(math_content) THEN result
    ELSE LET ch == math_content[i]
             d == DepthAfter(brace_depth, ch)
         IN  IF d = 0 /\ SpacedOperatorAt(math_content, i)
             THEN EnhanceLoop(math_content, i + 1, d,
                      (IF result # <<>> /\ result[Len(result)] # " "
                       THEN Append(result, " ") ELSE result) \o <<ch, " ">>)
             ELSE EnhanceLoop(math_content, i + 1, d, Append(result, ch))

\* The loop with the test of brace_depth left out.
RECURSIVE EnhanceLoopAnyDepth(_, _, _, _)
EnhanceLoopAnyDepth(math_content, i, brace_depth, result) ==
    IF i > Len(math_content) THEN result
    ELSE LET ch == math_content[i]
         IN  IF SpacedOperatorAt(math_content, i)
             THEN EnhanceLoopAnyDepth(math_content, i + 1, 0,
                      (IF result # <<>> /\ result[Len(result)] # " "
                       THEN Append(result, " ") ELSE result) \o <<ch, " ">>)
             ELSE EnhanceLoopAnyDepth(math_content, i + 1, 0, Append(result, ch))

enhance_inline_math_AnyDepth(math_content) ==
    <<"$">> \o EnhanceLoopAnyDepth(math_content, 1, 0, <<>>) \o <<"$">>

\* enhance_inline_math(match), the argument being match.group(1)
enhance_inline_math(math_content) ==
    <<"$">> \o EnhanceLoop(math_content, 1, 0, <<>>) \o <<"$">>

\* The match of r"\$([^$]+)\$" at i: its end, or 0.
InlineMathEnd(s, i) ==
    LET p == RunEndNot(s, i + 1, {"$"})
    IN  IF CharAt(s, i, "$") /\ p > i + 1 /\ CharAt(s, p, "$") THEN p + 1 ELSE 0

\* content = re.sub(r"\$([^$]+)\$", enhance_inline_math, content)
_enhance_math_formatting(content) ==
    ReSub(content,
          [i \in 1..Len(content) |-> InlineMathEnd(content, i)],
          [i \in 1..Len(content) |->
              IF InlineMathEnd(content, i) = 0 THEN <<>>
              ELSE enhance_inline_math(SubSeq(content, i + 1, InlineMathEnd(content, i) - 2))])

\* The match of r"([a-zA-Z])\s*\^\s*([0-9]+)" (mark "^") or of
\* r"([a-zA-Z])\s*_\s*([0-9]+)" (mark "_") at i: <<start of group 2, end of the
\* match>>, or <<>>.
ScriptMatch(s, i, mark) ==
    IF s[i] \notin Letters THEN <<>>
    ELSE LET j == SkipSpaces(s, i + 1)
             k == SkipSpaces(s, j + 1)
             e == RunEnd(s, k, Digits)
         IN  IF CharAt(s, j, mark) /\ e > k THEN <<k, e>> ELSE <<>>

\* re.sub of the superscript or subscript pattern by r"\1^{\2}" or r"\1_{\2}"
FixScripts(s, mark) ==
    ReSub(s,
          [i \in 1..Len(s) |->
              IF ScriptMatch(s, i, mark) = <<>> THEN 0 ELSE ScriptMatch(s, i, mark)[2]],
          [i \in 1..Len(s) |->
              LET m == ScriptMatch(s, i, mark)
              IN  IF m = <<>> THEN <<>>
                  ELSE <<s[i], mark, "{">> \o SubSeq(s, m[1], m[2] - 1) \o <<"}">>])

\* The match of r"\{\s*([^}]+)\s*\}" at i: <<start of group 1, end of group 1
\* (exclusive), end of the match>>, or <<>>.  The group takes everything up to
\* the first "}", the white space before it included; the leading \s* gives
\* back one character when nothing else is left for the group.
BraceGroupMatch(s, i) ==
    IF ~CharAt(s, i, "{") THEN <<>>
    ELSE LET w == SkipSpaces(s, i + 1)
             p == RunEndNot(s, i + 1, {"}"})
         IN  IF p > Len(s) \/ p = i + 1 THEN <<>>
             ELSE IF w < p THEN <<w, p, p + 1>>
             ELSE <<p - 1, p, p + 1>>

\* The match of r"\\frac\s*\{\s*([^}]+)\s*\}\s*\{\s*([^}]+)\s*\}" at i: the two
\* brace groups, or <<>>.
FracMatch(s, i) ==
    IF ~LitAt(s, i, Chars("\\frac")) THEN <<>>
    ELSE LET g1 == BraceGroupMatch(s, SkipSpaces(s, i + 5))
         IN  IF g1 = <<>> THEN <<>>
             ELSE LET g2 == BraceGroupMatch(s, SkipSpaces(s, g1[3]))
                  IN  IF g2 = <<>> THEN <<>> ELSE <<g1, g2>>

\* re.sub(<the fraction pattern>, r"\\frac{\1}{\2}", content)
FixFractions(s) ==
    ReSub(s,
          [i \in 1..Len(s) |-> IF FracMatch(s, i) = <<>> THEN 0 ELSE FracMatch(s, i)[2][3]],
          [i \in 1..Len(s) |->
              LET m == FracMatch(s, i)
              IN  IF m = <<>> THEN <<>>
                  ELSE Chars("\\frac{") \o SubSeq(s, m[1][1], m[1][2] - 1) \o Chars("}{")
                           \o SubSeq(s, m[2][1], m[2][2] - 1) \o Chars("}")])

\* The match of r"\\sqrt\s*\{\s*([^}]+)\s*\}" at i: the brace group, or <<>>.
SqrtMatch(s, i) ==
    IF ~LitAt(s, i, Chars("\\sqrt")) THEN <<>>
    ELSE BraceGroupMatch(s, SkipSpaces(s, i + 5))

\* re.sub(<the square root pattern>, r"\\sqrt{\1}", content)
FixSquareRoots(s) ==
    ReSub(s,
          [i \in 1..Len(s) |-> IF SqrtMatch(s, i) = <<>> THEN 0 ELSE SqrtMatch(s, i)[3]],
          [i \in 1..Len(s) |->
              LET m == SqrtMatch(s, i)
              IN  IF m = <<>> THEN <<>>
                  ELSE Chars("\\sqrt{") \o SubSeq(s, m[1], m[2] - 1) \o Chars("}")])

\* The match of r"\\sum\s*_\s*\{\s*([^}]+)\s*\}\s*\^\s*\{\s*([^}]+)\s*\}" at i:
\* the two brace groups, or <<>>.
SumMatch(s, i) ==
    IF ~LitAt(s, i, Chars("\\sum")) THEN <<>>
    ELSE LET u == SkipSpaces(s, i + 4)
             g1 == IF CharAt(s, u, "_") THEN BraceGroupMatch(s, SkipSpaces(s, u + 1)) ELSE <<>>
         IN  IF g1 = <<>> THEN <<>>
             ELSE LET h == SkipSpaces(s, g1[3])
                      g2 == IF CharAt(s, h, "^")
                            THEN BraceGroupMatch(s, SkipSpaces(s, h + 1)) ELSE <<>>
                  IN  IF g2 = <<>> THEN <<>> ELSE <<g1, g2>>

\* re.sub(<the summation pattern>, r"\\sum_{{\1}}^{{\2}}", content): the
\* replacement is no f-string, its doubled braces are written as they stand
FixSummations(s) ==
    ReSub(s,
          [i \in 1..Len(s) |-> IF SumMatch(s, i) = <<>> THEN 0 ELSE SumMatch(s, i)[2][3]],
          [i \in 1..Len(s) |->
              LET m == SumMatch(s, i)
              IN  IF m = <<>> THEN <<>>
                  ELSE Chars("\\sum_{{") \o SubSeq(s, m[1][1], m[1][2] - 1) \o Chars("}}^{{")
                           \o SubSeq(s, m[2][1], m[2][2] - 1) \o Chars("}}")])

\* The corrections in the order of the dict.
_fix_common_math_errors(content) ==
    Then(Then(Then(Then(FixScripts(content, "^"),
                        LAMBDA c : FixScripts(c, "_")),
                   FixFractions),
              FixSquareRoots),
         FixSummations)

_process_math_equations(content) ==
    Then(Then(_normalize_math_delimiters(content), _enhance_math_formatting),
         _fix_common_math_errors)

----------------------------------------------------------------------------
(* MarkdownFormatter: image references *)

\* a in b, for two texts
IsSubstring(a, b) ==
    \E i \in 0..(Len(b) - Len(a)) : SubSeq(b, i + 1, i + Len(a)) = a

\* s.split(sep), sep one character
RECURSIVE Split(_, _)
Split(s, sep) ==
    LET e == RunEndNot(s, 1, {sep})
    IN  IF e > Len(s) THEN <<s>>
        ELSE <<SubSeq(s, 1, e - 1)>> \o Split(SubSeq(s, e + 1, Len(s)), sep)

\* A dict is the sequence of its <<key, value>> items in insertion order.
DictHas(d, key) == \E i \in 1..Len(d) : d[i][1] = key
DictGet(d, key) == d[CHOOSE i \in 1..Len(d) : d[i][1] = key][2]
\* d[key] = value: a key that is there keeps its place
DictSet(d, key, value) ==
    IF DictHas(d, key)
    THEN [i \in 1..Len(d) |-> IF d[i][1] = key THEN <<key, value>> ELSE d[i]]
    ELSE Append(d, <<key, value>>)

\* reverse_rename = {v: k for k, v in (rename_map or {}).items()}
RECURSIVE ReverseRename(_)
ReverseRename(rename_map) ==
    IF rename_map = <<>> THEN <<>>
    ELSE DictSet(ReverseRename(SubSeq(rename_map, 1, Len(rename_map) - 1)),
                 rename_map[Len(rename_map)][2], rename_map[Len(rename_map)][1])

\* mimetypes.guess_type(str(img_path)), "image/jpeg" when it knows none
GuessMime(name) ==
    LET ext == Lower(Split(name, ".")[Len(Split(name, "."))])
    IN  IF Len(Split(name, ".")) < 2 THEN Chars("image/jpeg")
        ELSE CASE ext = Chars("png") -> Chars("image/png")
               [] ext = Chars("jpg") -> Chars("image/jpeg")
               [] ext = Chars("jpeg") -> Chars("image/jpeg")
               [] ext = Chars("gif") -> Chars("image/gif")
               [] OTHER -> Chars("image/jpeg")

\* The reference of one image when the failure of base64 goes unnoticed.
ImageRefNoFallback(img, base64_images) ==
    IF base64_images
    THEN Chars("data:") \o GuessMime(img.name) \o Chars(";base64,") \o img.b64
    ELSE img.rel

\* The reference of one image: an image is [name, rel, readable, b64], its file
\* name, its path relative to output_dir, whether its file can be read and the
\* base64 text of its bytes.
ImageRef(img, base64_images) ==
    IF base64_images /\ img.readable
    THEN Chars("data:") \o GuessMime(img.name) \o Chars(";base64,") \o img.b64
    ELSE img.rel

\* img_path.relative_to(output_dir) raises ValueError for a path that is not
\* under output_dir (rel is then <<>>); it is called in relative-path mode and
\* in the base64 fallback.
CreateImageMapRaises(image_paths, base64_images) ==
    \E k \in 1..Len(image_paths) :
        /\ image_paths[k].rel = <<>>
        /\ ~(base64_images /\ image_paths[k].readable)

\* The loop without the original ids.
RECURSIVE CreateImageMapNoOldId(_, _, _, _, _)
CreateImageMapNoOldId(image_paths, k, base64_images, reverse_rename, imap) ==
    IF k > Len(image_paths) THEN imap
    ELSE CreateImageMapNoOldId(image_paths, k + 1, base64_images, reverse_rename,
             DictSet(imap, image_paths[k].name, ImageRef(image_paths[k], base64_images)))

\* The loop of _create_image_map over image_paths[k..].
RECURSIVE CreateImageMapFrom(_, _, _, _, _)
CreateImageMapFrom(image_paths, k, base64_images, reverse_rename, imap) ==
    IF k > Len(image_paths) THEN imap
    ELSE LET img == image_paths[k]
             ref == ImageRef(img, base64_images)
             m1 == DictSet(imap, img.name, ref)
             m2 == IF DictHas(reverse_rename, img.name)
                   THEN DictSet(m1, DictGet(reverse_rename, img.name), ref)
                   ELSE m1
         IN  CreateImageMapFrom(image_paths, k + 1, base64_images, reverse_rename, m2)

_create_image_map(image_paths, base64_images, rename_map) ==
    CreateImageMapFrom(image_paths, 1, base64_images, ReverseRename(rename_map), <<>>)

\* The match of r"!\[([^\]]*)\]\(([^)]+)\)" at i: <<end of group 1 (exclusive, it
\* starts at i + 2), end of group 2 (exclusive, it starts two after group 1)>>,
\* or <<>>.
ImageRefMatch(s, i) ==
    IF ~LitAt(s, i, <<"!", "[">>) THEN <<>>
    ELSE LET p == RunEndNot(s, i + 2, {"]"})
             q == RunEndNot(s, p + 2, {")"})
         IN  IF CharAt(s, p, "]") /\ CharAt(s, p + 1, "(") /\ q > p + 2 /\ CharAt(s, q, ")")
             THEN <<p, q>>
             ELSE <<>>

\* The first loop of replace_image_ref: the items whose name holds filename or
\* is held by it.
ExactMatches(filename, imap) ==
    {k \in 1..Len(imap) :
        IsSubstring(filename, imap[k][1]) \/ IsSubstring(imap[k][1], filename)}

\* The second loop: the items whose name holds, case aside, a part of filename
\* between underscores.
PartialMatches(filename, imap) ==
    {k \in 1..Len(imap) :
        \E j \in 1..Len(Split(Lower(filename), "_")) :
            IsSubstring(Split(Lower(filename), "_")[j], Lower(imap[k][1]))}

Smallest(S) == CHOOSE x \in S : \A y \in S : x <= y

\* A replace_image_ref that deletes the reference it cannot resolve.
replace_image_ref_DropUnmatched(match, alt_text, filename, imap) ==
    IF ExactMatches(filename, imap) # {}
    THEN <<"!", "[">> \o alt_text \o <<"]", "(">>
             \o imap[Smallest(ExactMatches(filename, imap))][2] \o <<")">>
    ELSE IF PartialMatches(filename, imap) # {}
    THEN <<"!", "[">> \o alt_text \o <<"]", "(">>
             \o imap[Smallest(PartialMatches(filename, imap))][2] \o <<")">>
    ELSE <<>>

\* replace_image_ref(match): the reference as rewritten, match being the text
\* of the reference, alt_text and filename its groups
replace_image_ref(match, alt_text, filename, imap) ==
    IF ExactMatches(filename, imap) # {}
    THEN <<"!", "[">> \o alt_text \o <<"]", "(">>
             \o imap[Smallest(ExactMatches(filename, imap))][2] \o <<")">>
    ELSE IF PartialMatches(filename, imap) # {}
    THEN <<"!", "[">> \o alt_text \o <<"]", "(">>
             \o imap[Smallest(PartialMatches(filename, imap))][2] \o <<")">>
    ELSE match

_update_image_references(content, imap) ==
    ReSub(content,
          [i \in 1..Len(content) |->
              IF ImageRefMatch(content, i) = <<>> THEN 0 ELSE ImageRefMatch(content, i)[2] + 1],
          [i \in 1..Len(content) |->
              LET m == ImageRefMatch(content, i)
              IN  IF m = <<>> THEN <<>>
                  ELSE replace_image_ref(SubSeq(content, i, m[2]),
                                         SubSeq(content, i + 2, m[1] - 1),
                                         SubSeq(content, m[1] + 2, m[2] - 1),
                                         imap)])

----------------------------------------------------------------------------
(* MarkdownFormatter: cleaning a page *)

\* The index of the last line break of the white space that starts at i, and
\* the number of line breaks in it.
LastBreakOfRun(s, i) ==
    LET B == {k \in i..(SkipSpaces(s, i) - 1) : s[k] = "\n"}
    IN  IF Cardinality(B) >= 3 THEN CHOOSE x \in B : \A y \in B : y <= x ELSE 0

\* re.sub(r"\n\s*\n\s*\n+", "\n\n", content): a match starts at a line break and
\* runs to the last line break of the white space there, which must hold three
CollapseWhitespace(s) ==
    ReSub(s,
          [i \in 1..Len(s) |->
              IF s[i] = "\n" /\ LastBreakOfRun(s, i) > 0 THEN LastBreakOfRun(s, i) + 1 ELSE 0],
          [i \in 1..Len(s) |-> <<"\n", "\n">>])

\* The match of r"^(#{1,6})\s*(.+)" (re.MULTILINE) at i: <<end of group 1
\* (exclusive), start of group 2, end of the match>>, or <<>>.  When nothing
\* but white space that (.+) cannot take follows the marks, \s* gives back
\* white space and then the marks give back their last "#".
HeadingFixMatch(s, i) ==
    IF ~(AtLineStart(s, i) /\ s[i] = "#") THEN <<>>
    ELSE LET h == Min(RunEnd(s, i, {"#"}), i + 6)
             K == {k \in h..SkipSpaces(s, h) : k <= Len(s) /\ s[k] # "\n"}
         IN  IF K # {}
             THEN LET k == CHOOSE x \in K : \A y \in K : y <= x
                  IN  <<h, k, RunEndNot(s, k, {"\n"})>>
             ELSE IF h - i >= 2 THEN <<h - 1, h - 1, RunEndNot(s, h - 1, {"\n"})>>
             ELSE <<>>

\* re.sub(r"^(#{1,6})\s*(.+)", r"\1 \2", content, flags=re.MULTILINE)
FixHeadings(s) ==
    ReSub(s,
          [i \in 1..Len(s) |->
              IF HeadingFixMatch(s, i) = <<>> THEN 0 ELSE HeadingFixMatch(s, i)[3]],
          [i \in 1..Len(s) |->
              LET m == HeadingFixMatch(s, i)
              IN  IF m = <<>> THEN <<>>
                  ELSE SubSeq(s, i, m[1] - 1) \o <<" ">> \o SubSeq(s, m[2], m[3] - 1)])

\* The match of r"^(\s*[-*+])\s+" (bullets TRUE) or of r"^(\s*\d+\.)\s+" (bullets
\* FALSE), re.MULTILINE, at i: <<end of group 1 (exclusive), end of the match>>,
\* or <<>>.
ListMarkerMatch(s, i, bullets) ==
    IF ~AtLineStart(s, i) THEN <<>>
    ELSE LET j == SkipSpaces(s, i)
             g == IF bullets
                  THEN (IF j <= Len(s) /\ s[j] \in {"-", "*", "+"} THEN j + 1 ELSE 0)
                  ELSE (IF RunEnd(s, j, Digits) > j /\ CharAt(s, RunEnd(s, j, Digits), ".")
                        THEN RunEnd(s, j, Digits) + 1 ELSE 0)
         IN  IF g > 0 /\ SkipSpaces(s, g) > g THEN <<g, SkipSpaces(s, g)>> ELSE <<>>

\* re.sub(<the list marker pattern>, r"\1 ", content, flags=re.MULTILINE)
FixListMarkers(s, bullets) ==
    ReSub(s,
          [i \in 1..Len(s) |->
              IF ListMarkerMatch(s, i, bullets) = <<>> THEN 0
              ELSE ListMarkerMatch(s, i, bullets)[2]],
          [i \in 1..Len(s) |->
              LET m == ListMarkerMatch(s, i, bullets)
              IN  IF m = <<>> THEN <<>> ELSE SubSeq(s, i, m[1] - 1) \o <<" ">>])

\* line.count("|")
CountChar(line, c) == Cardinality({i \in 1..Len(line) : line[i] = c})

\* The parts as split, not stripped.
TableCellsUntrimmed(line) ==
    LET parts == Split(line, "|")
        p1 == IF parts # <<>> /\ parts[1] = <<>> THEN Tail(parts) ELSE parts
    IN  IF p1 # <<>> /\ p1[Len(p1)] = <<>> THEN SubSeq(p1, 1, Len(p1) - 1) ELSE p1

\* parts = [part.strip() for part in line.split("|")], less an empty first and an
\* empty last part
TableCells(line) ==
    LET parts == [i \in 1..Len(Split(line, "|")) |-> Strip(Split(line, "|")[i], SpaceChars)]
        p1 == IF parts # <<>> /\ parts[1] = <<>> THEN Tail(parts) ELSE parts
    IN  IF p1 # <<>> /\ p1[Len(p1)] = <<>> THEN SubSeq(p1, 1, Len(p1) - 1) ELSE p1

\* The loop of _fix_table_formatting over lines[k..]: the lines it appends.
RECURSIVE TableLoop(_, _, _)
TableLoop(lines, k, in_table) ==
    IF k > Len(lines) THEN <<>>
    ELSE LET line == lines[k]
         IN  IF CountChar(line, "|") >= 2
             THEN IF TableCells(line) # <<>>
                  THEN <<Chars("| ") \o Join(Chars(" | "), TableCells(line)) \o Chars(" |")>>
                           \o TableLoop(lines, k + 1, TRUE)
                  ELSE <<line>> \o TableLoop(lines, k + 1, FALSE)
             ELSE (IF in_table /\ Strip(line, SpaceChars) = <<>> THEN <<Chars("")>> ELSE <<>>)
                      \o <<line>> \o TableLoop(lines, k + 1, FALSE)

_fix_table_formatting(content) ==
    Join(<<"\n">>, TableLoop(Split(content, "\n"), 1, FALSE))

\* $ under re.MULTILINE
AtLineEnd(s, i) == i > Len(s) \/ s[i] = "\n"

\* re.sub(r"[ \t]+$", "", content, flags=re.MULTILINE)
StripTrailingBlanks(s) ==
    ReSub(s,
          [i \in 1..Len(s) |->
              IF s[i] \in {" ", "\t"} /\ AtLineEnd(s, RunEnd(s, i, {" ", "\t"}))
              THEN RunEnd(s, i, {" ", "\t"}) ELSE 0],
          [i \in 1..Len(s) |-> <<>>])

_clean_markdown_content(content) ==
    Then(Then(Then(Then(Then(Then(CollapseWhitespace(content),
                                  FixHeadings),
                             LAMBDA c : FixListMarkers(c, TRUE)),
                        LAMBDA c : FixListMarkers(c, FALSE)),
                   _fix_table_formatting),
              StripTrailingBlanks),
         LAMBDA c : Strip(c, SpaceChars))

----------------------------------------------------------------------------
(* MarkdownFormatter: the final formatting pass *)

\* (?!\n) at position i: no line break stands there (the end of the text included)
NoBreakAt(s, i) == i > Len(s) \/ s[i] # "\n"

\* The start of group 2 of a pattern that begins (^|\n), matched at i: i itself
\* at the start of the text (^ is tried first), i + 1 after a line break at i.
\* first is what group 2 must begin with.  0: neither alternative leads on.
BlockStart(s, i, first) ==
    IF i = 1 /\ s[1] = first THEN 1
    ELSE IF s[i] = "\n" /\ CharAt(s, i + 1, first) THEN i + 1
    ELSE 0

\* The end of the match of r"(#{1,6}\s+[^\n]+)\n(?!\n)" with group 2 starting at
\* g, or 0.  \s+ may run over line breaks; it gives back white space until
\* [^\n]+ reaches a line break that no second one follows.
HeaderBlockEnd(s, g) ==
    LET r == RunEnd(s, g, {"#"})
        j == SkipSpaces(s, r)
        K == {k \in (r + 1)..j :
                 /\ k <= Len(s)
                 /\ s[k] # "\n"
                 /\ RunEndNot(s, k, {"\n"}) <= Len(s)
                 /\ NoBreakAt(s, RunEndNot(s, k, {"\n"}) + 1)}
    IN  IF r - g > 6 \/ K = {} THEN 0
        ELSE RunEndNot(s, CHOOSE x \in K : \A y \in K : y <= x, {"\n"}) + 1

\* The end of the match of the code block pattern (three backticks, [^backtick]*,
\* three backticks, then \n(?!\n)) with group 2 starting at g, or 0.
CodeBlockEnd(s, g) ==
    LET p == RunEndNot(s, g + 3, {Backtick})
    IN  IF /\ LitAt(s, g, <<Backtick, Backtick, Backtick>>)
           /\ LitAt(s, p, <<Backtick, Backtick, Backtick>>)
           /\ CharAt(s, p + 3, "\n")
           /\ NoBreakAt(s, p + 4)
        THEN p + 4 ELSE 0

\* The end of the match of r"(>[^\n]+)\n(?!\n)" with group 2 starting at g, or 0.
QuoteBlockEnd(s, g) ==
    LET e == RunEndNot(s, g + 1, {"\n"})
    IN  IF e > g + 1 /\ CharAt(s, e, "\n") /\ NoBreakAt(s, e + 1) THEN e + 1 ELSE 0

\* The end of the match at i of the pattern of kind "header", "code" or "quote".
BlockEnd(s, i, kind) ==
    LET g == BlockStart(s, i, CASE kind = "header" -> "#" [] kind = "code" -> Backtick
                                  [] OTHER -> ">")
    IN  IF g = 0 THEN 0
        ELSE CASE kind = "header" -> HeaderBlockEnd(s, g)
               [] kind = "code" -> CodeBlockEnd(s, g)
               [] OTHER -> QuoteBlockEnd(s, g)

\* re.sub(<the pattern of kind>, r"\1\2\n\n", content): the match ends with the
\* line break after the block, which is doubled.
SpaceAfterBlocks(s, kind) ==
    ReSub(s,
          [i \in 1..Len(s) |-> BlockEnd(s, i, kind)],
          [i \in 1..Len(s) |->
              IF BlockEnd(s, i, kind) = 0 THEN <<>>
              ELSE SubSeq(s, i, BlockEnd(s, i, kind) - 1) \o <<"\n">>])

\* re.sub(r"\n{3,}", "\n\n", content)
CollapseBlankLines(s) ==
    ReSub(s,
          [i \in 1..Len(s) |->
              IF RunEnd(s, i, {"\n"}) >= i + 3 THEN RunEnd(s, i, {"\n"}) ELSE 0],
          [i \in 1..Len(s) |-> <<"\n", "\n">>])

\* The pass with the closing strip() left out: content + "\n".
_apply_final_formatting_NoStrip(content) ==
    CollapseBlankLines(SpaceAfterBlocks(SpaceAfterBlocks(SpaceAfterBlocks(
        content, "header"), "code"), "quote")) \o <<"\n">>

_apply_final_formatting(content) ==
    Then(Then(Then(Then(SpaceAfterBlocks(content, "header"),
                        LAMBDA c : SpaceAfterBlocks(c, "code")),
                   LAMBDA c : SpaceAfterBlocks(c, "quote")),
              CollapseBlankLines),
         LAMBDA c : Strip(c, SpaceChars)) \o <<"\n">>

----------------------------------------------------------------------------
(* MarkdownFormatter.format_document *)

\* "\n---\n"
Separator == Chars("\n---\n")

\* f"# {document_title}\n"
TitlePart(title) == Chars("# ") \o title \o Chars("\n")

\* if document_title: (neither None nor empty)
TitleGiven(title) == title # <<>> /\ title[1] # <<>>

\* The body of the loop for a page with markdown, up to the cleaning: the
\* equations if preserve_math, then the image references, then the cleaning.
PageContent(markdown, fm, imap) ==
    Then(Then(IF fm.preserve_math THEN _process_math_equations(markdown) ELSE markdown,
              LAMBDA c : _update_image_references(c, imap)),
         _clean_markdown_content)

\* The loop body without the separator.
PagePartsNoSeparator(parts, page, idx, n, fm, imap) ==
    IF HasMarkdown(page) THEN Append(parts, PageContent(page[1], fm, imap)) ELSE parts

\* markdown_parts after the body of the loop for page, page_idx being idx and
\* len(pages) being n.
PageParts(parts, page, idx, n, fm, imap) ==
    IF HasMarkdown(page)
    THEN Append(IF idx > 0 /\ n > 1 THEN Append(parts, Separator) ELSE parts,
                PageContent(page[1], fm, imap))
    ELSE parts

----------------------------------------------------------------------------
(* converter.py: the image prefix *)

\* The files whose bytes the input file may hold, as text.
FileContents == {Chars("4163"), Chars("8864"), Chars("file A content")}

\* hashlib.sha256(bytes).hexdigest(), for the bytes of FileContents
sha256_hexdigest(bytes) ==
    CASE
         bytes = Chars("4163") ->
           Chars("95d4362bd3cd4315d0bbe38dfa5d7fb8f0aed5f1a31d98d510907279194e3000")
      [] bytes = Chars("8864") ->
           Chars("95d4361a36944b766410d2e8b0835fb195992e18d6522c653efb90cb1a98b2d0")
      [] bytes = Chars("file A content") ->
           Chars("ed25b39fc728e1b80fdf0b219dcf875234423e0fdcf5c5c75e5425ecf7da5083")

\* A digest cut one character short of length.
_content_hash_OneShort(bytes, length) == SubSeq(sha256_hexdigest(bytes), 1, length - 1)

\* _content_hash(path, length): the first length characters of the digest of
\* the bytes of the file
_content_hash(bytes, length) == SubSeq(sha256_hexdigest(bytes), 1, length)

\* The position of the last c in s, 0 when there is none.
RECURSIVE RFind(_, _)
RFind(s, c) ==
    IF s = <<>> THEN 0
    ELSE IF s[Len(s)] = c THEN Len(s)
    ELSE RFind(SubSeq(s, 1, Len(s) - 1), c)

\* Path.stem: the file name without its last suffix; a dot that leads or ends
\* the name starts no suffix.
Stem(name) ==
    LET i == RFind(name, ".")
    IN  IF i > 1 /\ i < Len(name) THEN SubSeq(name, 1, i - 1) ELSE name

generic_stems ==
    {Chars("input"), Chars("document"), Chars("file"), Chars("temp"), Chars("tmp"),
     Chars("output"), Chars("scan")}

\* Layer 1: the slug of the heading of the OCR pages, <<>> (None) without one.
HeadingSlug(ps) ==
    LET ocr_title == extract_title_from_markdown(ps)
    IN  IF ocr_title # <<>> /\ ocr_title[1] # <<>>
        THEN <<title_to_slug(ocr_title[1])>> ELSE <<>>

\* if slug is None or slug == "document"
Unresolved(slug) == slug = <<>> \/ slug = <<Document>>

\* Layer 2 without the stoplist.
InputSlugAnyStem(slug, input_path) ==
    IF Unresolved(slug) THEN <<title_to_slug(Stem(input_path))>> ELSE slug

\* Layer 2: the slug of the input stem, unless the stem is generic.
InputSlug(slug, input_path) ==
    IF Unresolved(slug) /\ Lower(Stem(input_path)) \notin generic_stems
    THEN <<title_to_slug(Stem(input_path))>> ELSE slug

\* Layer 3: the slug of the output stem.
OutputSlug(slug, output_path) ==
    IF Unresolved(slug) THEN <<title_to_slug(Stem(output_path))>> ELSE slug

\* The slug of the prefix.
PrefixSlug(ps, input_path, output_path) ==
    OutputSlug(InputSlug(HeadingSlug(ps), input_path), output_path)[1]

\* generate_image_prefix(pages, input_path, output_path), bytes being what the
\* file at input_path holds
generate_image_prefix(ps, input_path, output_path, bytes) ==
    PrefixSlug(ps, input_path, output_path) \o <<"-">> \o _content_hash(bytes, 6)

----------------------------------------------------------------------------
(* The callers *)

MaxTitleLen == 3

TitleAlphabet == {"A", "1", " ", "_", "-", "!", "U+00E9", "U+00DF", "U+FB01"}

\* "a" repeated n times
Filler(n) == [i \in 1..n |-> "a"]

\* Titles: short ones, and long ones that end around the truncation point.
Titles ==
    {Filler(n) \o w :
        n \in {0} \cup ((_MAX_SLUG_LENGTH - MaxTitleLen).._MAX_SLUG_LENGTH),
        w \in SeqsUpTo(TitleAlphabet, MaxTitleLen)}

Init ==
    /\ pc = "idle"
    /\ op = "none"
    /\ arg = <<>>
    /\ res = <<>>
    /\ res2 = <<>>
    /\ span = <<>>
    /\ formatter = [preserve_math |-> TRUE, base64_images |-> FALSE]
    /\ pages = <<>>
    /\ document_title = <<>>
    /\ image_map = <<>>
    /\ input_bytes = <<>>
    /\ page_idx = 0
    /\ markdown_parts = <<>>
    /\ processor = [max_retries |-> 3, retry_delay |-> 10, max_file_size_mb |-> 50]
    /\ attempt = 0
    /\ last_exception = <<>>
    /\ trace = <<>>
    /\ saved_images = <<>>
    /\ files = <<>>
    /\ image_idx = 0

\* slug = title_to_slug(title)
CallTitleToSlug ==
    /\ pc = "idle"
    /\ \E title \in Titles :
        /\ arg' = title
        /\ res' = title_to_slug(title)
    /\ pc' = "called"
    /\ op' = "title_to_slug"
    /\ UNCHANGED <<ocrVars, input_bytes, res2, span, docVars>>

\* title_to_slug(slug): the slug of a slug
RecallTitleToSlug ==
    /\ pc = "called"
    /\ op = "title_to_slug"
    /\ res2' = title_to_slug(res)
    /\ pc' = "recalled"
    /\ UNCHANGED <<ocrVars, input_bytes, op, arg, res, span, docVars>>

MaxTitlePages == 3

\* The pages title extraction is called on: no markdown attribute, or a text.
TitlePages ==
    {<<>>, <<Chars("")>>, <<Chars("text")>>,
     <<Chars("# Introduction\n\ntext")>>,
     <<Chars("# 1. Abstract\n## Methods Used")>>,
     <<Chars("# Real Title\n\nbody")>>,
     <<Chars("## Sub Title")>>,
     <<Chars("## This is H2\n\nContent.")>>,
     <<Chars("## Summary\n# Late Title")>>,
     <<Chars("# Introduction\n# Second Title")>>,
     <<Chars("### Deep\n#NoSpace")>>,
     <<Chars("#\nWrapped")>>,
     <<Chars("## II) References ")>>}

\* title = extract_title_from_markdown(pages)
CallExtractTitle ==
    /\ pc = "idle"
    /\ \E ps \in SeqsUpTo(TitlePages, MaxTitlePages) :
        /\ pages' = ps
        /\ res' = extract_title_from_markdown(ps)
    /\ pc' = "called"
    /\ op' = "extract_title_from_markdown"
    /\ UNCHANGED <<ocrVars, input_bytes, arg, res2, span, formatter, document_title, image_map, page_idx, markdown_parts>>

NextTitle == CallExtractTitle

SpecTitle == Init /\ [][NextTitle]_vars

\* The page lists the prefix is made for: none, a heading to use, a trivial
\* heading, a heading with nothing to slug, a heading that slugs to "document",
\* a level-2 heading behind a trivial level-1 heading.
PrefixPages ==
    {<<>>,
     <<<<Chars("# Real Title\n\nbody")>>>>,
     <<<<Chars("# Abstract\n\nSome text.")>>>>,
     <<<<Chars("# !!!")>>>>,
     <<<<Chars("# Document")>>>>,
     <<<<Chars("# Introduction\n\n## Sub Title")>>>>}

InputNames ==
    {Chars("research-paper.pdf"), Chars("document.pdf"), Chars("Scan.PDF"),
     Chars("!!!.pdf"), Chars("my.data.png"), Chars("tmp")}

OutputNames == {Chars("my-paper.md"), Chars("output.md"), Chars("___.md")}

\* image_prefix = generate_image_prefix(response.pages, input_path, output_path)
CallGenerateImagePrefix ==
    /\ pc = "idle"
    /\ \E ps \in PrefixPages, input_path \in InputNames, output_path \in OutputNames,
          bytes \in FileContents :
        /\ pages' = ps
        /\ input_bytes' = bytes
        /\ arg' = [input_path |-> input_path, output_path |-> output_path, bytes |-> bytes]
        /\ res' = generate_image_prefix(ps, input_path, output_path, bytes)
    /\ pc' = "called"
    /\ op' = "generate_image_prefix"
    /\ UNCHANGED <<ocrVars, res2, span, formatter, document_title, image_map, page_idx, markdown_parts>>

\* The file at input_path is written anew, with the same bytes or others.
WriteInputFile ==
    /\ op = "generate_image_prefix"
    /\ pc = "called"
    /\ \E bytes \in FileContents : input_bytes' = bytes
    /\ pc' = "written"
    /\ UNCHANGED <<ocrVars, op, arg, res, res2, span, docVars>>

\* generate_image_prefix once more, with the same pages and paths
RecallGenerateImagePrefix ==
    /\ op = "generate_image_prefix"
    /\ pc = "written"
    /\ res2' = generate_image_prefix(pages, arg.input_path, arg.output_path, input_bytes)
    /\ pc' = "recalled"
    /\ UNCHANGED <<ocrVars, input_bytes, op, arg, res, span, docVars>>

NextPrefix == CallGenerateImagePrefix \/ WriteInputFile \/ RecallGenerateImagePrefix

SpecPrefix == Init /\ [][NextPrefix]_vars

MaxRefSegments == 2

\* The image maps of the calls: none, one image, two images one of whose names
\* begins with the other's in either order, names with underscores.
ImageMaps ==
    LET one == <<Chars("img-1"), Chars("images/img-1.png")>>
        ten == <<Chars("img-10"), Chars("images/img-10.png")>>
        fig == <<Chars("fig_a.png"), Chars("images/fig_a.png")>>
    IN  {<<>>, <<one>>, <<ten, one>>, <<one, ten>>, <<fig>>, <<fig, ten, one>>}

\* The segments of a content: text without a reference, or a reference
\* [alt, ref] written as ![alt](ref).
TextSegments == {[text |-> Chars("Here is ")], [text |-> Chars(" (x)\n")], [text |-> Chars("[y] ")]}

RefSegments ==
    [alt : {Chars(""), Chars("Image 1")},
     ref : {Chars("img-1"), Chars("img-10"), Chars("zzz"), Chars("x_FIG"), Chars("fig_a.png"), Chars("q_")}]

IsRef(seg) == "ref" \in DOMAIN seg

\* The text of a segment.
SegmentText(seg) ==
    IF IsRef(seg) THEN <<"!", "[">> \o seg.alt \o <<"]", "(">> \o seg.ref \o <<")">>
    ELSE seg.text

\* content = self._update_image_references(page_content, image_map)
CallUpdateImageReferences ==
    /\ pc = "idle"
    /\ \E segs \in SeqsUpTo(TextSegments \cup RefSegments, MaxRefSegments), imap \in ImageMaps :
        /\ span' = segs
        /\ image_map' = imap
        /\ arg' = Flatten([k \in 1..Len(segs) |-> SegmentText(segs[k])])
        /\ res' = _update_image_references(
                      Flatten([k \in 1..Len(segs) |-> SegmentText(segs[k])]), imap)
    /\ pc' = "called"
    /\ op' = "_update_image_references"
    /\ UNCHANGED <<ocrVars, input_bytes, res2, formatter, pages, document_title, page_idx, markdown_parts>>

NextRefs == CallUpdateImageReferences

SpecRefs == Init /\ [][NextRefs]_vars

MaxImages == 3

\* The extracted images: [id, name, rel, readable, b64], the OCR id, the file
\* name (the id unless the image was renamed), the path relative to output_dir
\* (<<>>: not under it), whether the file can be read, the base64 of its bytes.
ImageFiles ==
    {[id |-> Chars("img-0.jpeg"), name |-> Chars("t-0a1b2c_img-0.jpeg"),
      rel |-> Chars("images/t-0a1b2c_img-0.jpeg"), readable |-> TRUE, b64 |-> Chars("aQ==")],
     [id |-> Chars("img-1.png"), name |-> Chars("img-1.png"),
      rel |-> Chars("images/img-1.png"), readable |-> TRUE, b64 |-> Chars("NDE2Mw==")],
     [id |-> Chars("img-2"), name |-> Chars("t-0a1b2c_img-2"),
      rel |-> Chars("images/t-0a1b2c_img-2"), readable |-> FALSE, b64 |-> <<>>],
     [id |-> Chars("img-3.png"), name |-> Chars("t-0a1b2c_img-3.png"),
      rel |-> Chars("images/t-0a1b2c_img-3.png"), readable |-> FALSE, b64 |-> <<>>],
     [id |-> Chars("img-4.gif"), name |-> Chars("t-0a1b2c_img-4.gif"),
      rel |-> <<>>, readable |-> TRUE, b64 |-> Chars("aQ==")]}

\* The rename map of extracted images: id -> name for each renamed image.
RECURSIVE RenameMapOf(_)
RenameMapOf(image_paths) ==
    IF image_paths = <<>> THEN <<>>
    ELSE LET img == image_paths[Len(image_paths)]
             rest == RenameMapOf(SubSeq(image_paths, 1, Len(image_paths) - 1))
         IN  IF img.id = img.name THEN rest ELSE DictSet(rest, img.id, img.name)

\* image_map = self._create_image_map(image_paths, output_dir, rename_map)
CallCreateImageMap ==
    /\ pc = "idle"
    /\ \E image_paths \in SeqsUpTo(ImageFiles, MaxImages), base64_images \in BOOLEAN,
          with_rename_map \in BOOLEAN :
        LET rename_map == IF with_rename_map THEN RenameMapOf(image_paths) ELSE <<>>
        IN  /\ \/ with_rename_map
               \/ \A k \in 1..Len(image_paths) : image_paths[k].id = image_paths[k].name
            /\ formatter' = [preserve_math |-> TRUE, base64_images |-> base64_images]
            /\ arg' = [image_paths |-> image_paths, rename_map |-> rename_map]
            /\ IF CreateImageMapRaises(image_paths, base64_images)
               THEN pc' = "raised" /\ image_map' = <<>>
               ELSE /\ pc' = "called"
                    /\ image_map' = _create_image_map(image_paths, base64_images, rename_map)
    /\ op' = "_create_image_map"
    /\ UNCHANGED <<ocrVars, input_bytes, res, res2, span, pages, document_title, page_idx, markdown_parts>>

NextImageMap == CallCreateImageMap

SpecImageMap == Init /\ [][NextImageMap]_vars

MaxTableLen == 5

TableAlphabet == {"|", "a", " ", "\n"}

\* content = self._fix_table_formatting(content)
CallFixTableFormatting ==
    /\ pc = "idle"
    /\ \E content \in SeqsUpTo(TableAlphabet, MaxTableLen) \cup
                      {Chars("|Column 1|Column 2|\n| Value 1 |Value 2  |")} :
        /\ arg' = content
        /\ res' = _fix_table_formatting(content)
    /\ pc' = "called"
    /\ op' = "_fix_table_formatting"
    /\ UNCHANGED <<ocrVars, input_bytes, res2, span, docVars>>

\* the repair once more, on its own output
RecallFixTableFormatting ==
    /\ pc = "called"
    /\ op = "_fix_table_formatting"
    /\ res2' = _fix_table_formatting(res)
    /\ pc' = "recalled"
    /\ UNCHANGED <<ocrVars, input_bytes, op, arg, res, span, docVars>>

NextTable == CallFixTableFormatting \/ RecallFixTableFormatting

SpecTable == Init /\ [][NextTable]_vars

MaxDocPages == 2

\* The pages of a document: without the attribute, with empty markdown, with
\* white space only, with text, with a heading, an equation, an image, an image
\* whose identifier holds an underscore.
DocPages ==
    {<<>>, <<Chars("")>>, <<Chars(" ")>>, <<Chars("A")>>, <<Chars("# B\ntext")>>,
     <<Chars("$a+b$")>>, <<Chars("![i](img-1)")>>, <<Chars("![f](fig_1.png)")>>}

DocTitles == {<<>>, <<Chars("")>>, <<Chars("T")>>}

\* The extracted images of a document: none, or one that was renamed.
DocImages ==
    {[paths |-> <<>>, rename_map |-> <<>>],
     [paths |-> <<[name |-> Chars("t-0a1b2c_img-1.png"),
                   rel |-> Chars("images/t-0a1b2c_img-1.png"),
                   readable |-> TRUE, b64 |-> Chars("aQ==")]>>,
      rename_map |-> <<<<Chars("img-1"), Chars("t-0a1b2c_img-1.png")>>>>]}

\* formatter = MarkdownFormatter(...); formatter.format_document(pages, ...), up
\* to the loop: the title part and the image map
FormatDocumentStart ==
    /\ pc = "idle"
    /\ \E ps \in SeqsUpTo(DocPages, MaxDocPages), title \in DocTitles,
          images \in DocImages, preserve_math \in BOOLEAN :
        /\ formatter' = [preserve_math |-> preserve_math, base64_images |-> FALSE]
        /\ pages' = ps
        /\ document_title' = title
        /\ markdown_parts' = IF TitleGiven(title) THEN <<TitlePart(title[1])>> ELSE <<>>
        /\ image_map' = _create_image_map(images.paths, FALSE, images.rename_map)
    /\ page_idx' = 0
    /\ pc' = "loop"
    /\ op' = "format_document"
    /\ UNCHANGED <<ocrVars, input_bytes, arg, res, res2, span>>

\* for page_idx, page in enumerate(pages): one turn of the loop
FormatDocumentPage ==
    /\ pc = "loop"
    /\ page_idx < Len(pages)
    /\ markdown_parts' = PageParts(markdown_parts, pages[page_idx + 1], page_idx,
                                   Len(pages), formatter, image_map)
    /\ page_idx' = page_idx + 1
    /\ UNCHANGED <<ocrVars, input_bytes, pc, op, arg, res, res2, span, formatter, pages, document_title, image_map>>

\* content = "\n\n".join(markdown_parts); return self._apply_final_formatting(content)
FormatDocumentReturn ==
    /\ pc = "loop"
    /\ page_idx = Len(pages)
    /\ res' = _apply_final_formatting(Join(<<"\n", "\n">>, markdown_parts))
    /\ pc' = "done"
    /\ UNCHANGED <<ocrVars, input_bytes, op, arg, res2, span, docVars>>

NextDoc == FormatDocumentStart \/ FormatDocumentPage \/ FormatDocumentReturn

SpecDoc == Init /\ [][NextDoc]_vars

MaxFinalLines == 3

\* The lines the final formatting pass is called on.
FinalLines == {Chars("# A"), Chars("> q"), Chars("text"), Chars(""),
               <<Backtick, Backtick, Backtick>>}

FinalInputs == {Join(<<"\n">>, ls) : ls \in SeqsUpTo(FinalLines, MaxFinalLines)}

\* content = self._apply_final_formatting(content)
CallApplyFinalFormatting ==
    /\ pc = "idle"
    /\ \E content \in FinalInputs :
        /\ arg' = content
        /\ res' = _apply_final_formatting(content)
    /\ pc' = "called"
    /\ op' = "_apply_final_formatting"
    /\ UNCHANGED <<ocrVars, input_bytes, res2, span, docVars>>

\* the pass run on its own output
RecallApplyFinalFormatting ==
    /\ pc = "called"
    /\ op = "_apply_final_formatting"
    /\ res2' = _apply_final_formatting(res)
    /\ pc' = "recalled"
    /\ UNCHANGED <<ocrVars, input_bytes, op, arg, res, span, docVars>>

NextFinal == CallApplyFinalFormatting \/ RecallApplyFinalFormatting

SpecFinal == Init /\ [][NextFinal]_vars

MaxMathFragments == 3

\* The fragments the markdown of a page with equations is made of.
MathFragments ==
    {Chars("\\[a\\]"), Chars("\\(a+b\\)"), Chars("$a+b$"), Chars("$$a$$"),
     Chars("x ^ 2"), Chars(" "), Chars("\n"), Chars("text")}

MathInputs == {Flatten(fs) : fs \in SeqsUpTo(MathFragments, MaxMathFragments)}

\* page_content = self._process_math_equations(page_content)
CallProcessMathEquations ==
    /\ pc = "idle"
    /\ \E content \in MathInputs :
        /\ arg' = content
        /\ res' = _process_math_equations(content)
    /\ pc' = "called"
    /\ op' = "_process_math_equations"
    /\ UNCHANGED <<ocrVars, input_bytes, res2, span, docVars>>

\* the normalizer run on its own output
RecallProcessMathEquations ==
    /\ pc = "called"
    /\ op = "_process_math_equations"
    /\ res2' = _process_math_equations(res)
    /\ pc' = "recalled"
    /\ UNCHANGED <<ocrVars, input_bytes, op, arg, res, span, docVars>>

NextMath == CallProcessMathEquations \/ RecallProcessMathEquations

SpecMath == Init /\ [][NextMath]_vars

MaxSpanLen == 4

SpanAlphabet == {"a", "1", "+", "-", "=", "{", "}", " "}

\* The bodies of the math spans: all short ones, and those of the tests.
SpanBodies ==
    SeqsUpTo(SpanAlphabet, MaxSpanLen)
        \cup {Chars("E_{-1}"), Chars("x^{2+3}"), Chars("a+b=c")}

\* How a span is delimited: inline, display on one line, display with its
\* delimiters on lines of their own.
SpanOpen(form) ==
    CASE form = "inline" -> <<"$">>
      [] form = "display" -> <<"$", "$">>
      [] form = "display_lines" -> <<"$", "$", "\n">>

SpanClose(form) ==
    CASE form = "inline" -> <<"$">>
      [] form = "display" -> <<"$", "$">>
      [] form = "display_lines" -> <<"\n", "$", "$">>

SpanText(sp) == sp.before \o SpanOpen(sp.form) \o sp.body \o SpanClose(sp.form) \o sp.after

\* content = self._enhance_math_formatting(content), the content being one
\* non-empty math span, alone or between two pieces of text without "$"
CallEnhanceMathFormatting ==
    /\ pc = "idle"
    /\ \E form \in {"inline", "display", "display_lines"},
          body \in SpanBodies \ {<<>>},
          around \in {<<>>, Chars("t+u ")} :
        LET sp == [form |-> form, body |-> body, before |-> around,
                   after |-> IF around = <<>> THEN <<>> ELSE Chars(" v=w")]
        IN  /\ span' = sp
            /\ arg' = SpanText(sp)
            /\ res' = _enhance_math_formatting(SpanText(sp))
    /\ pc' = "called"
    /\ op' = "_enhance_math_formatting"
    /\ UNCHANGED <<ocrVars, input_bytes, res2, docVars>>

NextEnhance == CallEnhanceMathFormatting

SpecEnhance == Init /\ [][NextEnhance]_vars

MaxMathBody == 3

MathBodyAlphabet == {"a", "+", "(", ")", "[", "]"}

\* The escaped delimiters as OCR emits them: with one backslash or with two.
EscapedOpen(form) ==
    CASE form = "inline" -> Chars("\\(")
      [] form = "inline_doubled" -> Chars("\\\\(")
      [] form = "display" -> Chars("\\[")
      [] form = "display_doubled" -> Chars("\\\\[")

EscapedClose(form) ==
    CASE form = "inline" -> Chars("\\)")
      [] form = "inline_doubled" -> Chars("\\\\)")
      [] form = "display" -> Chars("\\]")
      [] form = "display_doubled" -> Chars("\\\\]")

\* content = self._normalize_math_delimiters(content), the content being one
\* escaped math form with a non-empty body
CallNormalizeMathDelimiters ==
    /\ pc = "idle"
    /\ \E form \in {"inline", "inline_doubled", "display", "display_doubled"},
          body \in SeqsUpTo(MathBodyAlphabet, MaxMathBody) \ {<<>>} :
        /\ span' = [form |-> form, body |-> body, before |-> <<>>, after |-> <<>>]
        /\ arg' = EscapedOpen(form) \o body \o EscapedClose(form)
        /\ res' = _normalize_math_delimiters(EscapedOpen(form) \o body \o EscapedClose(form))
    /\ pc' = "called"
    /\ op' = "_normalize_math_delimiters"
    /\ UNCHANGED <<ocrVars, input_bytes, res2, docVars>>

NextNormalize == CallNormalizeMathDelimiters

SpecNormalize == Init /\ [][NextNormalize]_vars

NextSlug == CallTitleToSlug \/ RecallTitleToSlug

SpecSlug == Init /\ [][NextSlug]_vars

----------------------------------------------------------------------------
(* MarkdownFormatter.extract_metadata *)

\* len(re.findall(pattern, content)): the matches are taken leftmost first, each
\* search resuming where the match before it ended; ends[i] is the end
\* (exclusive) of the match at i, 0 without one.
RECURSIVE FindAllCount(_, _, _)
FindAllCount(s, i, ends) ==
    LET ahead == {j \in i..Len(s) : ends[j] > 0}
    IN  IF ahead = {} THEN 0
        ELSE 1 + FindAllCount(s, ends[CHOOSE x \in ahead : \A y \in ahead : x <= y], ends)

\* The match of r"\$\$[^$]+\$\$" at i: its end, or 0.
DisplayMathEnd(s, i) ==
    LET p == RunEndNot(s, i + 2, {"$"})
    IN  IF CharAt(s, i, "$") /\ CharAt(s, i + 1, "$") /\ p > i + 2
           /\ CharAt(s, p, "$") /\ CharAt(s, p + 1, "$")
        THEN p + 2 ELSE 0

\* inline_math = re.findall(r"\$[^$]+\$", content)
inline_math(content) ==
    FindAllCount(content, 1, [i \in 1..Len(content) |-> InlineMathEnd(content, i)])

\* display_math = re.findall(r"\$\$[^$]+\$\$", content)
display_math(content) ==
    FindAllCount(content, 1, [i \in 1..Len(content) |-> DisplayMathEnd(content, i)])

\* The metadata of extract_metadata, its counts: char_count, line_count and
\* math_equations.
extract_metadata(content) ==
    [char_count |-> Len(content),
     line_count |-> Len(Split(content, "\n")),
     math_equations |-> inline_math(content) + display_math(content)]

MaxMetaFragments == 3

\* The pieces of the texts extract_metadata is called on: an inline span, a
\* display span, text, a line break, a price.
MetaFragments ==
    {Chars("$x$"), Chars("$$y$$"), Chars("t "), Chars("\n"), Chars("5$")}

IsMathFragment(f) == f[1] = "$"
IsTextFragment(f) == "$" \notin {f[i] : i \in 1..Len(f)}

\* metadata = formatter.extract_metadata(content)
CallExtractMetadata ==
    /\ pc = "idle"
    /\ \E fs \in SeqsUpTo(MetaFragments, MaxMetaFragments) :
        /\ span' = fs
        /\ arg' = Flatten(fs)
        /\ res' = extract_metadata(Flatten(fs))
    /\ pc' = "called"
    /\ op' = "extract_metadata"
    /\ UNCHANGED <<ocrVars, input_bytes, res2, docVars>>

NextMetadata == CallExtractMetadata

SpecMetadata == Init /\ [][NextMetadata]_vars

----------------------------------------------------------------------------
(* exceptions.handle_api_error and OCRProcessor._process_with_retry *)

\* handle_api_error(error): the class of the error it returns, chosen from
\* str(error).lower().
handle_api_error(error) ==
    LET error_message == Lower(error.message)
    IN  IF IsSubstring(Chars("api key"), error_message)
           \/ IsSubstring(Chars("unauthorized"), error_message)
        THEN "APIKeyError"
        ELSE IF IsSubstring(Chars("quota"), error_message)
                \/ IsSubstring(Chars("limit exceeded"), error_message)
        THEN (IF IsSubstring(Chars("rate"), error_message)
              THEN "APIRateLimitError" ELSE "APIQuotaError")
        ELSE IF IsSubstring(Chars("timeout"), error_message) THEN "NetworkError"
        ELSE IF IsSubstring(Chars("connection"), error_message)
                \/ IsSubstring(Chars("network"), error_message)
        THEN "NetworkError"
        ELSE "APIError"

\* The test with the quota error left out.
DoNotRetryKeyOnly(class) == class = "APIKeyError"

\* isinstance(last_exception, (APIKeyError, APIQuotaError))
DoNotRetry(class) == class \in {"APIKeyError", "APIQuotaError"}

\* 2 ** attempt
RECURSIVE Pow2(_)
Pow2(n) == IF n = 0 THEN 1 ELSE 2 * Pow2(n - 1)

\* A backoff that grows by retry_delay with each attempt.
sleep_time_Linear(retry_delay, k) == retry_delay * (k + 1)

\* sleep_time = self.retry_delay * (2 ** attempt)
sleep_time(retry_delay, k) == retry_delay * Pow2(k)

MaxRetries == 4

\* retry_delay, in tenths of a second
RetryDelays == {0, 5, 10}

\* What client.ocr.process raises: an SDKError of the SDK, or another exception
\* (that of the HTTP transport), with its message.
ClientErrors ==
    {[sdk |-> s, message |-> Chars(m)] :
        s \in BOOLEAN,
        m \in {"Unauthorized", "Quota exceeded", "Rate limit exceeded",
               "Request timeout", "Connection refused", "Status 500"}}

\* response = self._process_with_retry(document_config, include_images)
CallProcessWithRetry ==
    /\ pc = "idle"
    /\ \E max_retries \in 0..MaxRetries, retry_delay \in RetryDelays :
        processor' = [processor EXCEPT !.max_retries = max_retries,
                                       !.retry_delay = retry_delay]
    /\ attempt' = 0
    /\ last_exception' = <<>>
    /\ trace' = <<>>
    /\ pc' = "loop"
    /\ op' = "_process_with_retry"
    /\ UNCHANGED <<arg, res, res2, span, docVars, input_bytes, saved_images, files, image_idx>>

\* One turn of the loop in which client.ocr.process returns: return response
OcrSucceeds ==
    /\ op = "_process_with_retry" /\ pc = "loop"
    /\ attempt < processor.max_retries
    /\ trace' = Append(trace, [kind |-> "ocr", attempt |-> attempt, error |-> <<>>])
    /\ res' = [returned |-> "response", attempt |-> attempt]
    /\ pc' = "returned"
    /\ UNCHANGED <<op, arg, res2, span, docVars, input_bytes, processor, attempt,
                   last_exception, saved_images, files, image_idx>>

\* One turn of the loop in which client.ocr.process raises an SDKError:
\* except SDKError as e
OcrRaisesSDKError ==
    /\ op = "_process_with_retry" /\ pc = "loop"
    /\ attempt < processor.max_retries
    /\ \E e \in {x \in ClientErrors : x.sdk} :
        LET class == handle_api_error(e)
            request == [kind |-> "ocr", attempt |-> attempt, error |-> <<e>>]
        IN  /\ last_exception' = <<class>>
            /\ IF DoNotRetry(class)
               THEN /\ trace' = Append(trace, request)
                    /\ pc' = "break"
                    /\ attempt' = attempt
               ELSE /\ trace' =
                        IF attempt < processor.max_retries - 1
                        THEN trace \o <<request,
                                        [kind |-> "sleep", attempt |-> attempt,
                                         time |-> sleep_time(processor.retry_delay, attempt)]>>
                        ELSE Append(trace, request)
                    /\ pc' = "loop"
                    /\ attempt' = attempt + 1
    /\ UNCHANGED <<op, arg, res, res2, span, docVars, input_bytes, processor,
                   saved_images, files, image_idx>>

\* One turn of the loop in which client.ocr.process raises another exception:
\* except Exception as e
OcrRaisesOther ==
    /\ op = "_process_with_retry" /\ pc = "loop"
    /\ attempt < processor.max_retries
    /\ \E e \in {x \in ClientErrors : ~x.sdk} :
        /\ last_exception' = <<handle_api_error(e)>>
        /\ trace' = Append(trace, [kind |-> "ocr", attempt |-> attempt, error |-> <<e>>])
    /\ pc' = "break"
    /\ UNCHANGED <<op, arg, res, res2, span, docVars, input_bytes, processor, attempt,
                   saved_images, files, image_idx>>

\* raise last_exception or OCRProcessingError(...), after the loop
RaiseLastException ==
    /\ op = "_process_with_retry"
    /\ pc = "break" \/ (pc = "loop" /\ attempt >= processor.max_retries)
    /\ res' = [raised |-> IF last_exception # <<>> THEN last_exception[1]
                          ELSE "OCRProcessingError"]
    /\ pc' = "raised"
    /\ UNCHANGED <<op, arg, res2, span, docVars, input_bytes, ocrVars>>

NextRetry ==
    \/ CallProcessWithRetry
    \/ OcrSucceeds
    \/ OcrRaisesSDKError
    \/ OcrRaisesOther
    \/ RaiseLastException

SpecRetry == Init /\ [][NextRetry]_vars

\* The loop runs on: an attempt, once started, ends, and so does a sleep.
SpecRetryFair == SpecRetry /\ WF_vars(NextRetry)

----------------------------------------------------------------------------
(* Config.validate and MarkItMistral.__init__ *)

\* The names the logging module defines among the log levels used here.
LoggingAttributes ==
    {"DEBUG", "INFO", "WARNING", "ERROR", "CRITICAL", "WARN", "FATAL", "NOTSET"}

\* setup_logging: getattr(logging, self.log_level) raises AttributeError for a
\* name the module does not define.
setup_logging(config) ==
    IF config.log_level \in LoggingAttributes THEN <<>> ELSE <<"AttributeError">>

\* validate with max_retries = 0 let through.
validate_ZeroRetries(config) ==
    IF config.mistral_api_key \in {<<>>, <<"">>} THEN <<"ValueError">>
    ELSE IF config.max_retries < 0 THEN <<"ValueError">>
    ELSE IF config.retry_delay < 0 THEN <<"ValueError">>
    ELSE IF config.max_file_size_mb < 1 THEN <<"ValueError">>
    ELSE IF config.log_level \notin {"DEBUG", "INFO", "WARNING", "ERROR", "CRITICAL"}
    THEN <<"ValueError">>
    ELSE <<>>

\* Config.validate: <<>> when it returns, else the error it raises.  The key is
\* <<>> (None) or <<text>>.
validate(config) ==
    IF config.mistral_api_key \in {<<>>, <<"">>} THEN <<"ValueError">>
    ELSE IF config.max_retries < 1 THEN <<"ValueError">>
    ELSE IF config.retry_delay < 0 THEN <<"ValueError">>
    ELSE IF config.max_file_size_mb < 1 THEN <<"ValueError">>
    ELSE IF config.log_level \notin {"DEBUG", "INFO", "WARNING", "ERROR", "CRITICAL"}
    THEN <<"ValueError">>
    ELSE <<>>

\* The configurations a converter is constructed from (retry_delay in tenths of
\* a second).
Configs ==
    [mistral_api_key : {<<>>, <<"">>, <<"key">>},
     max_retries : {0, 1, 3},
     retry_delay : {-1, 0, 10},
     max_file_size_mb : {0, 1, 50},
     preserve_math : {TRUE},
     base64_images : {FALSE},
     log_level : {"INFO", "DEBUG", "WARN", "TRACE"}]

\* The config after the overrides of the constructor, an override being <<>>
\* (None) or <<value>>.
Override(config, api_key, max_retries) ==
    [config EXCEPT
        !.mistral_api_key = IF api_key # <<>> THEN api_key ELSE @,
        !.max_retries = IF max_retries # <<>> THEN max_retries[1] ELSE @]

\* MarkItMistral(config, api_key=..., max_retries=...): the overrides, the
\* logging setup, the validation, then the components; the OCRProcessor gets the
\* key and the two retry settings and keeps its own max_file_size_mb.
MarkItMistralInit ==
    /\ pc = "idle"
    /\ \E config \in Configs, api_key \in {<<>>, <<<<"">>>>, <<<<"key2">>>>},
          max_retries \in {<<>>, <<0>>, <<2>>} :
        LET c == Override(config, IF api_key = <<>> THEN <<>> ELSE api_key[1], max_retries)
            error == IF setup_logging(c) # <<>> THEN setup_logging(c) ELSE validate(c)
        IN  /\ arg' = c
            /\ IF error # <<>>
               THEN /\ res' = [raised |-> error, components |-> <<>>]
                    /\ pc' = "raised"
                    /\ UNCHANGED <<processor, formatter>>
               ELSE /\ res' = [raised |-> <<>>,
                               components |-> <<"file_processor", "ocr_processor",
                                                "markdown_formatter", "output_manager">>]
                    /\ processor' = [max_retries |-> c.max_retries,
                                     retry_delay |-> c.retry_delay,
                                     max_file_size_mb |-> 50]
                    /\ formatter' = [preserve_math |-> c.preserve_math,
                                     base64_images |-> c.base64_images]
                    /\ pc' = "constructed"
    /\ op' = "MarkItMistral"
    /\ UNCHANGED <<res2, span, pages, document_title, image_map, page_idx, markdown_parts,
                   input_bytes, attempt, last_exception, trace, saved_images, files, image_idx>>

NextConfig == MarkItMistralInit

SpecConfig == Init /\ [][NextConfig]_vars

----------------------------------------------------------------------------
(* MarkdownFormatter._fix_common_math_errors on recognition artifacts *)

MaxArtifacts == 3

\* The five artifacts the corrections are written for, and plain text.
Artifacts ==
    {Chars("x ^ 2"), Chars("x _ 1"), Chars("\\frac { a } { b }"), Chars("\\sqrt { a }"),
     Chars("\\sum _ { i } ^ { n }"), Chars(" and ")}

\* content = self._fix_common_math_errors(content), the content being a run of
\* artifacts
CallFixCommonMathErrors ==
    /\ pc = "idle"
    /\ \E fs \in SeqsUpTo(Artifacts, MaxArtifacts) :
        /\ span' = fs
        /\ arg' = Flatten(fs)
        /\ res' = _fix_common_math_errors(Flatten(fs))
    /\ pc' = "called"
    /\ op' = "_fix_common_math_errors"
    /\ UNCHANGED <<ocrVars, input_bytes, res2, docVars>>

NextArtifacts == CallFixCommonMathErrors

SpecArtifacts == Init /\ [][NextArtifacts]_vars

----------------------------------------------------------------------------
(* OCRProcessor.process_pdf and process_image *)

MiB == 1024 * 1024

DigitChar(d) == <<"0", "1", "2", "3", "4", "5", "6", "7", "8", "9">>[d + 1]

\* str(n), n >= 0
RECURSIVE IntText(_)
IntText(n) == IF n < 10 THEN <<DigitChar(n)>> ELSE Append(IntText(n \div 10), DigitChar(n % 10))

Pow10(d) == IF d = 0 THEN 1 ELSE IF d = 1 THEN 10 ELSE 100

\* f"{file_size / (1024 * 1024):.<d>f}": the quotient is exact in a double, the
\* format rounds it half to even.
FormatMB(file_size, d) ==
    LET num == (file_size % MiB) * Pow10(d)
        q == num \div MiB
        r == num % MiB
        up == IF r > MiB \div 2 \/ (r = MiB \div 2 /\ q % 2 = 1) THEN 1 ELSE 0
        total == (file_size \div MiB) * Pow10(d) + q + up
        frac == IntText(total % Pow10(d))
    IN  IntText(total \div Pow10(d)) \o <<".">>
            \o (IF Len(frac) < d THEN <<"0">> ELSE <<>>) \o frac

\* str(error) of a MarkItMistralError: the message, then the details if any
ErrorStr(message, details) ==
    IF details = <<>> THEN message ELSE message \o Chars("\nDetails: ") \o details

\* FileTooLargeError(file_path, size_mb, max_size_mb)
FileTooLargeError(file_path, file_size, max_size_mb) ==
    [class |-> "FileTooLargeError",
     str |-> ErrorStr(Chars("File too large: ") \o file_path \o Chars(" (")
                          \o FormatMB(file_size, 1) \o Chars(" MB)"),
                      Chars("Maximum allowed size: ") \o IntText(max_size_mb) \o Chars(" MB"))]

\* The ValueError of process_image
ImageTooLargeError(file_size, max_size_mb) ==
    [class |-> "ValueError",
     str |-> Chars("Image file too large: ") \o FormatMB(file_size, 2) \o Chars(" MB (max ")
                 \o IntText(max_size_mb) \o Chars(" MB)")]

\* FileCorruptedError(file_path, reason)
FileCorruptedError(file_path, reason) ==
    [class |-> "FileCorruptedError",
     str |-> ErrorStr(Chars("File appears to be corrupted: ") \o file_path, reason)]

\* What Path.stat raises for a file that is not there.
NoSuchFile(file_path) ==
    [class |-> "builtins.FileNotFoundError",
     str |-> Chars("[Errno 2] No such file or directory: '") \o file_path \o Chars("'")]

\* path.suffix.lower(), for the paths of the model
Suffix(file_path) == SubSeq(file_path, Len(file_path) - 3, Len(file_path))

\* The files handed to the processor: their path, whether they exist, their
\* size in bytes.
InputFiles ==
    [path : {Chars("in/doc.pdf"), Chars("in/scan.png")},
     exists : BOOLEAN,
     size : {MiB \div 4, MiB, 50 * MiB, 50 * MiB + 1, 60 * MiB}]

FileSizeLimits == {1, 50}

\* The state in which _process_with_retry starts, called by caller on file.
EnterRetryLoop(caller, file) ==
    /\ arg' = [caller |-> caller, file |-> file]
    /\ attempt' = 0
    /\ last_exception' = <<>>
    /\ op' = "_process_with_retry"
    /\ pc' = "loop"
    /\ UNCHANGED res

\* The call raises error before it reaches _process_with_retry.
RaiseBeforeOcr(caller, file, error) ==
    /\ arg' = [caller |-> caller, file |-> file]
    /\ res' = [raised |-> error.class, str |-> error.str]
    /\ op' = caller
    /\ pc' = "raised"
    /\ UNCHANGED <<attempt, last_exception>>

\* processor.process_pdf(pdf_path), up to the call of _process_with_retry: the
\* size of the file, the limit, then the encoding of the file.  The FileNotFoundError
\* named in the except clause is the one of the package, so the error of stat
\* is taken by except Exception.
ProcessPdf ==
    /\ pc = "idle"
    /\ \E file \in InputFiles, limit \in FileSizeLimits :
        /\ processor' = [processor EXCEPT !.max_file_size_mb = limit]
        /\ IF ~file.exists
           THEN RaiseBeforeOcr("process_pdf", file,
                    FileCorruptedError(file.path,
                        Chars("Cannot access file: ") \o NoSuchFile(file.path).str))
           ELSE IF file.size > limit * MiB
           THEN RaiseBeforeOcr("process_pdf", file,
                    FileTooLargeError(file.path, file.size, limit))
           ELSE IF Suffix(file.path) # Chars(".pdf")
           THEN RaiseBeforeOcr("process_pdf", file,
                    FileCorruptedError(file.path, Chars("File is not a PDF")))
           ELSE EnterRetryLoop("process_pdf", file)
    /\ trace' = <<>>
    /\ UNCHANGED <<res2, span, docVars, input_bytes, saved_images, files, image_idx>>

\* processor.process_image(image_path), up to the call of _process_with_retry
ProcessImage ==
    /\ pc = "idle"
    /\ \E file \in InputFiles, limit \in FileSizeLimits :
        /\ processor' = [processor EXCEPT !.max_file_size_mb = limit]
        /\ IF ~file.exists
           THEN RaiseBeforeOcr("process_image", file, NoSuchFile(file.path))
           ELSE IF file.size > limit * MiB
           THEN RaiseBeforeOcr("process_image", file, ImageTooLargeError(file.size, limit))
           ELSE IF Suffix(file.path) # Chars(".png")
           THEN RaiseBeforeOcr("process_image", file,
                    FileCorruptedError(file.path, Chars("File is not a valid image")))
           ELSE EnterRetryLoop("process_image", file)
    /\ trace' = <<>>
    /\ UNCHANGED <<res2, span, docVars, input_bytes, saved_images, files, image_idx>>

\* The end of process_pdf or process_image after _process_with_retry: the
\* response is returned; what the loop raised is wrapped in an OCRProcessingError
\* by process_pdf and raised as it is by process_image.
ProcessReturn ==
    /\ op = "_process_with_retry"
    /\ pc \in {"returned", "raised"}
    /\ op' = arg.caller
    /\ res' = IF pc = "returned" THEN res
              ELSE [raised |-> IF arg.caller = "process_pdf" THEN "OCRProcessingError"
                               ELSE res.raised,
                    str |-> <<>>]
    /\ UNCHANGED <<pc, arg, res2, span, docVars, input_bytes, ocrVars>>

NextProcess ==
    \/ ProcessPdf
    \/ ProcessImage
    \/ OcrSucceeds
    \/ OcrRaisesSDKError
    \/ OcrRaisesOther
    \/ RaiseLastException
    \/ ProcessReturn

SpecProcess == Init /\ [][NextProcess]_vars

----------------------------------------------------------------------------
(* OCRProcessor.extract_images *)

B64Alphabet == Chars("ABCDEFGHIJKLMNOPQRSTUVWXYZabcdefghijklmnopqrstuvwxyz0123456789+/")

B64Value(c) == (CHOOSE i \in 1..64 : B64Alphabet[i] = c) - 1

\* The bytes of one group of four characters, c and d being "=" for padding.
B64Group(a, b, c, d) ==
    LET n == B64Value(a) * 262144 + B64Value(b) * 4096
                 + (IF c = "=" THEN 0 ELSE B64Value(c) * 64)
                 + (IF d = "=" THEN 0 ELSE B64Value(d))
    IN  <<n \div 65536>>
            \o (IF c = "=" THEN <<>> ELSE <<(n \div 256) % 256>>)
            \o (IF d = "=" THEN <<>> ELSE <<n % 256>>)

\* base64.b64decode(data): <<the bytes>>, or <<>> when it raises.  Characters
\* outside the alphabet are dropped.  A "=" counts as padding when two or three
\* characters of a group precede it and it completes the group, and the text
\* ends there; any other "=" is dropped.  Without padding the characters have
\* to make whole groups of four.
b64decode(data) ==
    LET t == SelectSeq(data, LAMBDA c : c = "=" \/ \E i \in 1..64 : B64Alphabet[i] = c)
        DataBefore(i) == Cardinality({j \in 1..(i - 1) : t[j] # "="})
        PadRun(i) == Cardinality({j \in 1..i : \A k \in j..i : t[k] = "="})
        stops == {i \in 1..Len(t) :
                     /\ t[i] = "="
                     /\ DataBefore(i) % 4 >= 2
                     /\ (DataBefore(i) % 4) + PadRun(i) >= 4}
        last == IF stops = {} THEN Len(t)
                ELSE (CHOOSE i \in stops : \A j \in stops : i <= j) - 1
        d == SelectSeq(SubSeq(t, 1, last), LAMBDA c : c # "=")
        groups == Len(d) \div 4
        whole == Flatten([g \in 1..groups |->
                     B64Group(d[4 * g - 3], d[4 * g - 2], d[4 * g - 1], d[4 * g])])
    IN  IF Len(d) % 4 = 0 THEN <<whole>>
        ELSE IF stops = {} THEN <<>>
        ELSE IF Len(d) % 4 = 2 THEN <<whole \o B64Group(d[Len(d) - 1], d[Len(d)], "=", "=")>>
        ELSE <<whole \o B64Group(d[Len(d) - 2], d[Len(d) - 1], d[Len(d)], "=")>>

\* The try block up to image_data: <<the bytes>>, or <<>> when it raises (a data
\* URI with no comma cannot be unpacked into header and data).
image_data(image_base64) ==
    IF LitAt(image_base64, 1, Chars("data:"))
    THEN IF \E i \in 1..Len(image_base64) : image_base64[i] = ","
         THEN b64decode(SubSeq(image_base64,
                               (CHOOSE i \in 1..Len(image_base64) :
                                    /\ image_base64[i] = ","
                                    /\ \A j \in 1..(i - 1) : image_base64[j] # ",") + 1,
                               Len(image_base64)))
         ELSE <<>>
    ELSE b64decode(image_base64)

\* filename = image.id, or f"page_{page_idx + 1}_image_{len(saved_images) + 1}.jpg"
ImageFilename(image, pidx, saved) ==
    IF image.id # <<>> /\ image.id[1] # <<>> THEN image.id[1]
    ELSE Chars("page_") \o IntText(pidx + 1) \o Chars("_image_")
             \o IntText(Len(saved) + 1) \o Chars(".jpg")

\* hasattr(image, 'image_base64') and image.image_base64
CarriesData(image) == image.image_base64 # <<>> /\ image.image_base64[1] # <<>>

MaxResponseImages == 3

\* The images of a response, as the OCR emits them and as the disk takes them:
\* id and image_base64 are <<>> (None) or <<text>>, a data URI or bare base64;
\* disk is what happens when the file is opened and written.
ImageKinds ==
    {[has_id |-> TRUE, image_base64 |-> <<Chars("data:image/png;base64,QQ==")>>, disk |-> "ok"],
     [has_id |-> FALSE, image_base64 |-> <<Chars("QUI=")>>, disk |-> "ok"],
     [has_id |-> TRUE, image_base64 |-> <<Chars("Q")>>, disk |-> "ok"],
     [has_id |-> FALSE, image_base64 |-> <<Chars("data:QQ==")>>, disk |-> "ok"],
     [has_id |-> FALSE, image_base64 |-> <<Chars("QQ==")>>, disk |-> "write fails"],
     [has_id |-> TRUE, image_base64 |-> <<Chars("QQ==")>>, disk |-> "open fails"],
     [has_id |-> TRUE, image_base64 |-> <<>>, disk |-> "ok"]}

\* The response whose images are the given kinds on the given pages, 1 or 2; the
\* OCR numbers the images of a document, so that no two share an id.
ResponseOf(kinds, on_page) ==
    [pages |->
        [p \in 1..2 |->
            [images |->
                SelectSeq([k \in 1..Len(kinds) |->
                              [id |-> IF kinds[k].has_id
                                      THEN <<Chars("img-") \o IntText(k - 1) \o Chars(".jpeg")>>
                                      ELSE <<>>,
                               image_base64 |-> kinds[k].image_base64,
                               disk |-> kinds[k].disk,
                               page |-> on_page[k]]],
                          LAMBDA image : image.page = p)]]]

Responses ==
    {ResponseOf(kinds, on_page) :
        <<kinds, on_page>> \in
            {<<ks, ps>> \in SeqsUpTo(ImageKinds, MaxResponseImages)
                              \X SeqsUpTo({1, 2}, MaxResponseImages) :
                /\ Len(ks) = Len(ps)
                /\ \A k \in 1..(Len(ps) - 1) : ps[k] <= ps[k + 1]}}

\* except Exception as e: logger.warning(...): where the loop goes to, were the
\* failure to end the extraction
OnSaveFailure_Abort == "raised"

\* except Exception as e: logger.warning(...): the loop goes on
OnSaveFailure == "loop"

\* saved = processor.extract_images(response, output_dir), up to the loop: the
\* search for an image with data, and the directory made if there is one
CallExtractImages ==
    /\ pc = "idle"
    /\ \E response \in Responses :
        LET has_images == \E p \in 1..Len(response.pages) :
                              \E k \in 1..Len(response.pages[p].images) :
                                  CarriesData(response.pages[p].images[k])
        IN  /\ arg' = [response |-> response, output_dir |-> Chars("out/images")]
            /\ IF has_images
               THEN /\ trace' = <<[kind |-> "mkdir", path |-> Chars("out/images")]>>
                    /\ pc' = "loop"
                    /\ UNCHANGED res
               ELSE /\ trace' = <<>>
                    /\ res' = <<>>
                    /\ pc' = "returned"
    /\ op' = "extract_images"
    /\ saved_images' = <<>>
    /\ files' = <<>>
    /\ page_idx' = 0
    /\ image_idx' = 0
    /\ UNCHANGED <<res2, span, formatter, pages, document_title, image_map, markdown_parts,
                   input_bytes, processor, attempt, last_exception>>

\* for page_idx, page in enumerate(response.pages): a page whose images are all
\* done
ExtractNextPage ==
    /\ op = "extract_images" /\ pc = "loop"
    /\ page_idx < Len(arg.response.pages)
    /\ image_idx >= Len(arg.response.pages[page_idx + 1].images)
    /\ page_idx' = page_idx + 1
    /\ image_idx' = 0
    /\ UNCHANGED <<pc, op, arg, res, res2, span, formatter, pages, document_title, image_map,
                   markdown_parts, input_bytes, processor, attempt, last_exception, trace,
                   saved_images, files>>

\* for image in page.images: one image, decoded, named, written and appended;
\* opening the file empties it, and a failure anywhere leaves the list as it is
ExtractImage ==
    /\ op = "extract_images" /\ pc = "loop"
    /\ page_idx < Len(arg.response.pages)
    /\ image_idx < Len(arg.response.pages[page_idx + 1].images)
    /\ LET image == arg.response.pages[page_idx + 1].images[image_idx + 1]
           data == image_data(image.image_base64[1])
           filename == ImageFilename(image, page_idx, saved_images)
           image_path == arg.output_dir \o <<"/">> \o filename
       IN  IF ~CarriesData(image)
           THEN UNCHANGED <<pc, saved_images, files>>
           ELSE IF data = <<>> \/ image.disk = "open fails"
           THEN /\ pc' = OnSaveFailure
                /\ UNCHANGED <<saved_images, files>>
           ELSE IF image.disk = "write fails"
           THEN /\ pc' = OnSaveFailure
                /\ files' = DictSet(files, image_path, <<>>)
                /\ UNCHANGED saved_images
           ELSE /\ files' = DictSet(files, image_path, data[1])
                /\ saved_images' = Append(saved_images, image_path)
                /\ UNCHANGED pc
    /\ image_idx' = image_idx + 1
    /\ UNCHANGED <<op, arg, res, res2, span, formatter, pages, document_title, image_map,
                   markdown_parts, input_bytes, page_idx, processor, attempt, last_exception,
                   trace>>

\* return saved_images
ExtractImagesReturn ==
    /\ op = "extract_images" /\ pc = "loop"
    /\ page_idx >= Len(arg.response.pages)
    /\ res' = saved_images
    /\ pc' = "returned"
    /\ UNCHANGED <<op, arg, res2, span, docVars, input_bytes, ocrVars>>

NextExtract ==
    \/ CallExtractImages
    \/ ExtractNextPage
    \/ ExtractImage
    \/ ExtractImagesReturn

SpecExtract == Init /\ [][NextExtract]_vars

----------------------------------------------------------------------------
(* Claims *)

DocumentReturned == op = "format_document" /\ pc = "done"

\* The pages with non-empty markdown, in input order.
NonEmptyPages == SelectSeq(pages, HasMarkdown)

\* The positions of markdown_parts that hold a separator.
SeparatorsInserted == {i \in 1..Len(markdown_parts) : markdown_parts[i] = Separator}

\* The number of parts the title takes.
TitleParts == IF TitleGiven(document_title) THEN 1 ELSE 0

\* C1: a separator is inserted only between two consecutive pages with non-empty
\* markdown: there are max(0, n-1) of them for n such pages, and none precedes
\* the content of the first non-empty page.
C1_SeparatorsOnlyBetweenPages ==
    DocumentReturned =>
        /\ Cardinality(SeparatorsInserted) = Max(0, Len(NonEmptyPages) - 1)
        /\ \A i \in SeparatorsInserted : i > TitleParts + 1

\* The text without its white space.
Squeeze(s) == SelectSeq(s, LAMBDA c : ~IsSpace(c))

\* The first position from i on where lit occurs in s, 0 when there is none.
RECURSIVE FindFrom(_, _, _)
FindFrom(s, i, lit) ==
    IF i + Len(lit) - 1 > Len(s) THEN 0
    ELSE IF LitAt(s, i, lit) THEN i
    ELSE FindFrom(s, i + 1, lit)

\* The pieces occur in s from i on one after the other, none overlapping another.
RECURSIVE OccurInOrder(_, _, _)
OccurInOrder(s, i, pieces) ==
    IF pieces = <<>> THEN TRUE
    ELSE LET at == FindFrom(s, i, Head(pieces))
         IN  at # 0 /\ OccurInOrder(s, at + Len(Head(pieces)), Tail(pieces))

\* The content of the non-empty pages as format_document emits it, in input order.
PageContents ==
    [k \in 1..Len(NonEmptyPages) |-> PageContent(NonEmptyPages[k][1], formatter, image_map)]

\* The title heading when a title is supplied.
TitlePieces ==
    IF TitleGiven(document_title) THEN <<Chars("# ") \o document_title[1]>> ELSE <<>>

\* The title heading, then the page contents with a "---" between each two.
OrderedPieces ==
    TitlePieces \o
    [j \in 1..Max(0, 2 * Len(PageContents) - 1) |->
        IF j % 2 = 1 THEN PageContents[(j + 1) \div 2] ELSE Chars("---")]

\* C2: the returned document holds, in this order, the title as a level-1 heading
\* (only when a title is supplied, then first and followed by a blank line), then
\* the content of every non-empty page in input order with a "---" between each
\* page and the next; nothing else but separators is in it.
C2_DocumentInOrder ==
    DocumentReturned =>
        /\ OccurInOrder(Squeeze(res), 1, [j \in 1..Len(OrderedPieces) |-> Squeeze(OrderedPieces[j])])
        /\ SelectSeq(markdown_parts, LAMBDA part : part # Separator)
               = [j \in 1..Len(TitlePieces) |-> TitlePieces[j] \o <<"\n">>] \o PageContents
        /\ \A i \in 1..(Len(markdown_parts) - 1) :
               /\ (i \notin SeparatorsInserted /\ i + 1 \notin SeparatorsInserted) => i = TitleParts
               /\ ~(i \in SeparatorsInserted /\ i + 1 \in SeparatorsInserted)
        /\ (TitleGiven(document_title) /\ NonEmptyPages # <<>> /\ PageContents[1] # <<>>) =>
               LitAt(res, 1, TitlePieces[1] \o <<"\n", "\n">>)

\* The document of the test: a title and two pages, the second with a heading.
C2_Witness ==
    /\ DocumentReturned
    /\ document_title = <<Chars("T")>>
    /\ pages = <<<<Chars("A")>>, <<Chars("# B\ntext")>>>>
    /\ res = Chars("# T\n\nA\n\n---\n\n# B\n\ntext\n")

\* C4: the final formatting pass is idempotent: run on its own output it changes
\* nothing, also for several consecutive heading or block-quote lines.
C4_FinalFormattingIdempotent ==
    (op = "_apply_final_formatting" /\ pc = "recalled") => res2 = res

\* C3: the Math Normalizer is idempotent: run on its own output it changes nothing.
C3_MathNormalizerIdempotent ==
    (op = "_process_math_equations" /\ pc = "recalled") => res2 = res

EnhanceCalled == op = "_enhance_math_formatting" /\ pc = "called"

\* Position i of body lies inside braces: a "{" before it is still open, no "}"
\* between the two having closed it.
InsideBraces(body, i) ==
    \E j \in 1..(i - 1) :
        /\ body[j] = "{"
        /\ \A k \in (j + 1)..(i - 1) :
               Cardinality({x \in (j + 1)..k : body[x] = "}"})
                   <= Cardinality({x \in (j + 1)..k : body[x] = "{"})

\* The operator at i is one the claim has spaced: at brace depth zero, with an
\* alphanumeric character right before and right after it.
ClaimedSpaced(body, i) ==
    /\ body[i] \in {"+", "-", "="}
    /\ ~InsideBraces(body, i)
    /\ i > 1 /\ i < Len(body)
    /\ IsAlnum(body[i - 1]) /\ IsAlnum(body[i + 1])

\* The body with a space on each side of exactly the operators ClaimedSpaced.
SpacedBody(body) ==
    Flatten([i \in 1..Len(body) |->
                IF ClaimedSpaced(body, i) THEN <<" ", body[i], " ">> ELSE <<body[i]>>])

\* C5: in an inline span a "+", "-" or "=" gets a space on each side exactly when
\* it is at brace depth zero between two alphanumeric characters; all else, the
\* inside of braces and the text around the span included, is unchanged.
C5_InlineSpacing ==
    (EnhanceCalled /\ span.form = "inline") =>
        res = span.before \o <<"$">> \o SpacedBody(span.body) \o <<"$">> \o span.after

\* The three spans of the tests, and an operator inside braces beside one outside.
C5_Witness ==
    /\ EnhanceCalled /\ span.form = "inline"
    /\ span.body = Chars("a+b=c")
    /\ span.before = Chars("t+u ")
    /\ res = Chars("t+u $a + b = c$") \o span.after
    /\ _enhance_math_formatting(Chars("$E_{-1}$")) = Chars("$E_{-1}$")
    /\ _enhance_math_formatting(Chars("$x^{2+3}$")) = Chars("$x^{2+3}$")

\* C6: the content of a display span, on one line or with its delimiters on
\* lines of their own, is never changed by the spacing enhancement.
C6_DisplayUntouched ==
    (EnhanceCalled /\ span.form \in {"display", "display_lines"}) => res = arg

NormalizeCalled == op = "_normalize_math_delimiters" /\ pc = "called"

\* C7: every \(X\) becomes $X$ and every \[X\] becomes $$X$$ (put on lines of its
\* own by the display spacing), X unchanged, whatever X holds and also with
\* doubled backslashes; no backslash of a delimiter is left.
C7_DelimitersRewritten ==
    NormalizeCalled =>
        /\ span.form \in {"inline", "inline_doubled"} =>
               res = <<"$">> \o span.body \o <<"$">>
        /\ span.form \in {"display", "display_doubled"} =>
               res \in {<<"$", "$">> \o span.body \o <<"$", "$">>,
                        <<"$", "$", "\n">> \o span.body \o <<"\n", "$", "$">>}

SlugCalled == op = "title_to_slug" /\ pc \in {"called", "recalled"}

\* C8: title_to_slug is idempotent: the slug of a slug is that slug, for every
\* title, truncated ones and those that fall back to "document" included.
C8_SlugIdempotent ==
    (op = "title_to_slug" /\ pc = "recalled") => res2 = res

\* A title longer than the limit whose truncation ended in a hyphen, slugged twice.
C8_Witness ==
    /\ op = "title_to_slug" /\ pc = "recalled"
    /\ Len(arg) > _MAX_SLUG_LENGTH
    /\ Len(res) = _MAX_SLUG_LENGTH - 1
    /\ res2 = res

\* No character of the title is an ASCII letter or digit after normalization.
NoSurvivor(title) == \A i \in 1..Len(AsciiFold(title)) : ~IsAlnum(AsciiFold(title)[i])

\* C9: every slug is non-empty, at most 50 characters of [a-z0-9-], with no
\* leading, trailing or doubled hyphen; a title of which no character survives
\* gives exactly "document".
C9_SlugShape ==
    SlugCalled =>
        /\ res # <<>>
        /\ Len(res) <= _MAX_SLUG_LENGTH
        /\ \A i \in 1..Len(res) : res[i] \in SlugChars
        /\ res[1] # "-"
        /\ res[Len(res)] # "-"
        /\ \A i \in 1..(Len(res) - 1) : ~(res[i] = "-" /\ res[i + 1] = "-")
        /\ (NoSurvivor(arg) => res = Document)

\* A non-empty title of punctuation and symbols only, which fell back.
C9_Witness ==
    /\ SlugCalled
    /\ arg # <<>>
    /\ NoSurvivor(arg)
    /\ res = Document

TitleCalled == op = "extract_title_from_markdown" /\ pc = "called"

\* The headings of level n of page k, in the order of the text.
PageHeadings(k, n) == IF HasMarkdown(pages[k]) THEN HeadingTitles(pages[k][1], n) ELSE <<>>

\* Heading j of level n on page k is not trivial and every heading of level n
\* before it, on an earlier page or earlier on page k, is trivial.
IsFirstNonTrivial(k, j, n) ==
    /\ ~_is_trivial_heading(PageHeadings(k, n)[j])
    /\ \A j2 \in 1..(j - 1) : _is_trivial_heading(PageHeadings(k, n)[j2])
    /\ \A k2 \in 1..(k - 1) : \A j2 \in 1..Len(PageHeadings(k2, n)) :
           _is_trivial_heading(PageHeadings(k2, n)[j2])

\* Some heading of level n, on any page, is not trivial.
SomeNonTrivial(n) ==
    \E k \in 1..Len(pages) : \E j \in 1..Len(PageHeadings(k, n)) :
        ~_is_trivial_heading(PageHeadings(k, n)[j])

AllHeadings(n) == Flatten([k \in 1..Len(pages) |-> PageHeadings(k, n)])

\* The pages hold no level-1 heading and exactly one level-2 heading.
OnlyOneH2 == AllHeadings(1) = <<>> /\ Len(AllHeadings(2)) = 1

PrefixCalled == op = "generate_image_prefix" /\ pc \in {"called", "written", "recalled"}

\* The slug of a returned prefix: all but its last "-" and what follows it.
SlugOfPrefix(prefix) == SubSeq(prefix, 1, RFind(prefix, "-") - 1)

\* The suffix of a returned prefix: what follows its last "-".
HashOfPrefix(prefix) == SubSeq(prefix, RFind(prefix, "-") + 1, Len(prefix))

\* The heading resolves: the pages have a non-trivial heading and its slug is
\* not "document".
HeadingResolves ==
    /\ extract_title_from_markdown(pages) # <<>>
    /\ title_to_slug(extract_title_from_markdown(pages)[1]) # Document

\* The input stem resolves: it is not generic and its slug is not "document".
InputStemResolves ==
    /\ \A g \in generic_stems : Lower(Stem(arg.input_path)) # g
    /\ title_to_slug(Stem(arg.input_path)) # Document

\* C12: the slug of the prefix is that of the first source that resolves: the
\* non-trivial OCR heading, else the input stem unless generic, else the output
\* stem; a later source is never used when an earlier one resolved.
C12_FirstResolvingSource ==
    PrefixCalled =>
        SlugOfPrefix(res) =
            IF HeadingResolves THEN title_to_slug(extract_title_from_markdown(pages)[1])
            ELSE IF InputStemResolves THEN title_to_slug(Stem(arg.input_path))
            ELSE title_to_slug(Stem(arg.output_path))

\* A trivial heading and a generic input stem: the output stem gives the slug.
C12_Witness ==
    /\ PrefixCalled
    /\ pages = <<<<Chars("# Abstract\n\nSome text.")>>>>
    /\ arg.input_path = Chars("Scan.PDF")
    /\ arg.output_path = Chars("my-paper.md")
    /\ SlugOfPrefix(res) = Chars("my-paper")

HexChars == Digits \cup {"a", "b", "c", "d", "e", "f"}

\* The prefix ends in "-" and 6 lowercase hex characters.
HasHashSuffix(prefix) ==
    /\ RFind(prefix, "-") > 1
    /\ Len(HashOfPrefix(prefix)) = 6
    /\ \A i \in 1..6 : HashOfPrefix(prefix)[i] \in HexChars

Recalled == op = "generate_image_prefix" /\ pc = "recalled"

RefsCalled == op = "_update_image_references" /\ pc = "called"

\* ref matches no identifier of the map in any tier: it neither holds nor is held
\* by one, and none of its parts between underscores occurs, case aside, in one.
NoTierMatch(ref, imap) ==
    \A k \in 1..Len(imap) :
        /\ ~IsSubstring(ref, imap[k][1])
        /\ ~IsSubstring(imap[k][1], ref)
        /\ \A j \in 1..Len(Split(Lower(ref), "_")) :
               ~IsSubstring(Split(Lower(ref), "_")[j], Lower(imap[k][1]))

\* What a segment may have become: a text itself; a reference itself when it
\* matches in no tier, else the reference with its alt text and with the final
\* reference of an image of the map for its target.
AllowedTexts(seg, imap) ==
    IF ~IsRef(seg) \/ NoTierMatch(seg.ref, imap) THEN {SegmentText(seg)}
    ELSE {<<"!", "[">> \o seg.alt \o <<"]", "(">> \o imap[k][2] \o <<")">> : k \in 1..Len(imap)}

\* The text is the segments one after the other, each as AllowedTexts has it.
RECURSIVE MadeOfAllowed(_, _, _)
MadeOfAllowed(text, segs, imap) ==
    IF segs = <<>> THEN text = <<>>
    ELSE \E t \in AllowedTexts(Head(segs), imap) :
             /\ LitAt(text, 1, t)
             /\ MadeOfAllowed(SubSeq(text, Len(t) + 1, Len(text)), Tail(segs), imap)

\* C14: only the target of a matched reference changes: a reference that matches
\* in no tier (every reference when the map is empty) stays as it is, none is
\* removed, a rewritten one keeps its alt text, the text outside the references
\* is unchanged.
C14_OnlyTargetsChange ==
    RefsCalled =>
        /\ MadeOfAllowed(res, span, image_map)
        /\ image_map = <<>> => res = arg

\* A content with a reference that is rewritten and one that matches nothing.
C14_Witness ==
    /\ RefsCalled
    /\ image_map = <<<<Chars("img-1"), Chars("images/img-1.png")>>>>
    /\ arg = Chars("![Image 1](img-1)![](zzz)")
    /\ res = Chars("![Image 1](images/img-1.png)![](zzz)")

\* Every reference of the content has a target equal to a name of the map.
AllRefsExact == \A k \in 1..Len(span) : IsRef(span[k]) => DictHas(image_map, span[k].ref)

\* C15: the exact tier comes first: a reference whose target equals a name of the
\* map gets the final reference of that very name, whatever other names the map
\* holds and in whatever order.
C15_ExactMatchFirst ==
    (RefsCalled /\ AllRefsExact) =>
        res = Flatten([k \in 1..Len(span) |->
                  IF IsRef(span[k])
                  THEN <<"!", "[">> \o span[k].alt \o <<"]", "(">>
                           \o DictGet(image_map, span[k].ref) \o <<")">>
                  ELSE span[k].text])

MapCalled == op = "_create_image_map" /\ pc = "called"

\* The images of the call that were renamed: their name is a value of rename_map.
RenamedImages ==
    {k \in 1..Len(arg.image_paths) :
        \E e \in 1..Len(arg.rename_map) : arg.rename_map[e][2] = arg.image_paths[k].name}

\* C16: for every renamed image the map has both the old id and the new file
\* name as keys, with the same final reference, in relative-path mode, in base64
\* mode and in the base64 fallback.
C16_OldAndNewSameReference ==
    MapCalled =>
        \A k \in RenamedImages : \A e \in 1..Len(arg.rename_map) :
            arg.rename_map[e][2] = arg.image_paths[k].name =>
                /\ DictHas(image_map, arg.rename_map[e][1])
                /\ DictHas(image_map, arg.image_paths[k].name)
                /\ DictGet(image_map, arg.rename_map[e][1])
                       = DictGet(image_map, arg.image_paths[k].name)

\* A renamed image that is embedded, one that falls back, one that kept its id.
C16_Witness ==
    /\ MapCalled
    /\ formatter.base64_images
    /\ Len(arg.image_paths) = 3
    /\ RenamedImages = {1, 2}
    /\ arg.image_paths[1].id = Chars("img-0.jpeg")
    /\ arg.image_paths[2].id = Chars("img-2")
    /\ DictGet(image_map, Chars("img-0.jpeg")) = Chars("data:image/jpeg;base64,aQ==")
    /\ DictGet(image_map, Chars("img-2")) = Chars("images/t-0a1b2c_img-2")

\* The call was made in base64 mode with every image under output_dir.
Base64UnderOutputDir ==
    /\ op = "_create_image_map"
    /\ formatter.base64_images
    /\ \A k \in 1..Len(arg.image_paths) : arg.image_paths[k].rel # <<>>

\* C17: in base64 mode an image that cannot be read or encoded is mapped, under
\* its name and under its original id if renamed, to its path relative to
\* output_dir; every other image still gets its data URI, and the call does not
\* raise.
C17_FallbackPerImage ==
    Base64UnderOutputDir =>
        /\ pc = "called"
        /\ \A k \in 1..Len(arg.image_paths) :
               LET img == arg.image_paths[k]
                   ref == IF img.readable
                          THEN Chars("data:") \o GuessMime(img.name) \o Chars(";base64,") \o img.b64
                          ELSE img.rel
               IN  /\ DictGet(image_map, img.name) = ref
                   /\ DictHas(arg.rename_map, img.id) => DictGet(image_map, img.id) = ref

\* A failing renamed image between two images that are embedded.
C17_Witness ==
    /\ Base64UnderOutputDir
    /\ pc = "called"
    /\ Len(arg.image_paths) = 3
    /\ arg.image_paths[1].readable /\ ~arg.image_paths[2].readable
    /\ arg.image_paths[3].id = Chars("img-1.png")
    /\ DictHas(arg.rename_map, arg.image_paths[2].id)
    /\ DictGet(image_map, arg.image_paths[2].id) = arg.image_paths[2].rel
    /\ DictGet(image_map, Chars("img-1.png")) = Chars("data:image/png;base64,NDE2Mw==")

TableCalled == op = "_fix_table_formatting" /\ pc \in {"called", "recalled"}

\* The lines of a text that hold more than white space.
NonBlankLines(text) == SelectSeq(Split(text, "\n"), LAMBDA line : Strip(line, SpaceChars) # <<>>)

\* The cells of a line: its parts between "|", each trimmed, less one empty
\* leading cell and one empty trailing cell.
CellsOf(line) ==
    LET cells == [i \in 1..Len(Split(line, "|")) |-> Strip(Split(line, "|")[i], SpaceChars)]
        lead == IF cells[1] = <<>> THEN 1 ELSE 0
        last == IF Len(cells) > lead /\ cells[Len(cells)] = <<>> THEN 1 ELSE 0
    IN  SubSeq(cells, 1 + lead, Len(cells) - last)

\* | c1 | c2 | ... | cn |
RowOf(cells) ==
    <<"|">> \o Flatten([i \in 1..Len(cells) |-> <<" ">> \o cells[i] \o <<" ", "|">>])

\* C18: every line with at least two "|" comes out as | c1 | ... | cn |, the
\* c's being its trimmed cells less an empty leading and an empty trailing one;
\* every other line that is not blank comes out as it is, in the same order; a
\* repaired row is unchanged by the repair.
C18_RowsRepaired ==
    /\ TableCalled =>
           NonBlankLines(res) =
               [k \in 1..Len(NonBlankLines(arg)) |->
                   IF CountChar(NonBlankLines(arg)[k], "|") >= 2
                   THEN RowOf(CellsOf(NonBlankLines(arg)[k]))
                   ELSE NonBlankLines(arg)[k]]
    /\ (op = "_fix_table_formatting" /\ pc = "recalled") =>
           NonBlankLines(res2) = NonBlankLines(res)

\* The table of the test, repaired and repaired again.
C18_Witness ==
    /\ op = "_fix_table_formatting" /\ pc = "recalled"
    /\ arg = Chars("|Column 1|Column 2|\n| Value 1 |Value 2  |")
    /\ res = Chars("| Column 1 | Column 2 |\n| Value 1 | Value 2 |")
    /\ res2 = res

\* Somewhere in s three line breaks follow one another.
HasBlankRun(s) ==
    \E i \in 1..(Len(s) - 2) : s[i] = "\n" /\ s[i + 1] = "\n" /\ s[i + 2] = "\n"

\* C19: whatever the pages and the title, the document format_document returns
\* ends with exactly one line break, has no other whitespace at its start or
\* its end, and nowhere holds three or more line breaks in a row; the loop over
\* the pages, with or without markdown, always has its next step to take.
C19_DocumentShape ==
    /\ DocumentReturned =>
          /\ Len(res) >= 1
          /\ res[Len(res)] = "\n"
          /\ Len(res) >= 2 => (~IsSpace(res[1]) /\ ~IsSpace(res[Len(res) - 1]))
          /\ ~HasBlankRun(res)
    /\ (op = "format_document" /\ pc = "loop") => page_idx \in 0..Len(pages)

\* A document of a page without markdown and a page of empty markdown, no title:
\* the call returns the line break alone.
C19_Witness ==
    /\ DocumentReturned
    /\ Len(pages) = 2
    /\ pages[1] = <<>>
    /\ pages[2] = <<Chars("")>>
    /\ document_title = <<>>
    /\ res = <<"\n">>

FinalCalled == op = "_apply_final_formatting" /\ pc = "called"

\* A heading line: one to six "#", white space, then text.
IsHeadingLine(line) ==
    LET e == RunEnd(line, 1, {"#"})
    IN  /\ e >= 2 /\ e <= 7
        /\ e <= Len(line) /\ IsSpace(line[e])
        /\ SkipSpaces(line, e) <= Len(line)

\* A block-quote line: ">" and text after it.
IsQuoteLine(line) == Len(line) >= 2 /\ line[1] = ">"

\* A line that opens or closes a fenced code block.
IsFenceLine(line) == Len(line) >= 3 /\ SubSeq(line, 1, 3) = <<Backtick, Backtick, Backtick>>

\* The number of fence lines among the first k lines.
FencesUpTo(ls, k) == Cardinality({j \in 1..k : IsFenceLine(ls[j])})

\* Line k ends a block of the kinds the pass spaces: a heading line or a
\* block-quote line outside a fenced code block, or the closing fence of one.
EndsBlock(ls, k) ==
    \/ (IsHeadingLine(ls[k]) \/ IsQuoteLine(ls[k])) /\ FencesUpTo(ls, k) % 2 = 0
    \/ IsFenceLine(ls[k]) /\ FencesUpTo(ls, k) % 2 = 0

\* More content follows line k.
MoreContent(ls, k) == \E j \in (k + 1)..Len(ls) : ls[j] # <<>>

\* C20: in the output of the final formatting pass every heading line, every
\* fenced code block and every block-quote line that more content follows is
\* followed by exactly one blank line, each of several consecutive heading or
\* block-quote lines included.
C20_BlankLineAfterEveryBlock ==
    FinalCalled =>
        LET ls == Split(res, "\n")
        IN  \A k \in 1..Len(ls) :
                (EndsBlock(ls, k) /\ MoreContent(ls, k)) =>
                    (ls[k + 1] = <<>> /\ ls[k + 2] # <<>>)

MetadataCalled == op = "extract_metadata" /\ pc = "called"

\* The text holds no "$" outside its math fragments, and these stand apart:
\* text or a line break follows each of them that is not the last fragment.
SpansApart ==
    /\ \A k \in 1..Len(span) : IsMathFragment(span[k]) \/ IsTextFragment(span[k])
    /\ \A k \in 1..(Len(span) - 1) : IsMathFragment(span[k]) => ~IsMathFragment(span[k + 1])

\* C21: extract_metadata reports as math_equations the number of the inline
\* spans plus the number of the display spans of the text, each span counted
\* once.
C21_MathSpansCountedOnce ==
    (MetadataCalled /\ SpansApart) =>
        res.math_equations = Cardinality({k \in 1..Len(span) : IsMathFragment(span[k])})

RetryCalled == op = "_process_with_retry"

\* The OCR requests of the trace, in order.
OcrRequests == SelectSeq(trace, LAMBDA ev : ev.kind = "ocr")

\* Event i of the trace is an OCR attempt that failed with an error of one of
\* the classes.
FailedAs(i, classes) ==
    /\ trace[i].kind = "ocr"
    /\ trace[i].error # <<>>
    /\ handle_api_error(trace[i].error[1]) \in classes

\* C22: once an OCR attempt fails with an error classified as APIKeyError or
\* APIQuotaError, nothing follows it, neither an OCR attempt nor a sleep: the
\* loop is left, and the call ends by raising that error, whatever max_retries.
C22_NoRetryOnKeyOrQuota ==
    RetryCalled =>
        \A i \in 1..Len(trace) :
            FailedAs(i, {"APIKeyError", "APIQuotaError"}) =>
                /\ i = Len(trace)
                /\ pc \in {"break", "raised"}
                /\ pc = "raised" => res = [raised |-> handle_api_error(trace[i].error[1])]

\* The quota is found exhausted at the second of three attempts, after a
\* transient failure and a sleep, and the call has raised.
C22_Witness ==
    /\ RetryCalled /\ pc = "raised"
    /\ processor.max_retries = 3
    /\ Len(trace) = 3
    /\ trace[2].kind = "sleep"
    /\ FailedAs(3, {"APIQuotaError"})
    /\ trace[3].error[1].sdk
    /\ res = [raised |-> "APIQuotaError"]

\* The classes of the transient errors: rate limit, network or connection
\* error, timeout.
TransientClasses == {"APIRateLimitError", "NetworkError"}

\* C23: an OCR attempt that fails with a transient error before the last allowed
\* attempt is followed by a backoff sleep and then by another attempt, however
\* the client raised the error; a call that gives up on a transient error has
\* made max_retries attempts.
C23_TransientAlwaysRetried ==
    RetryCalled =>
        /\ \A i \in 1..Len(trace) :
               (FailedAs(i, TransientClasses) /\ trace[i].attempt < processor.max_retries - 1) =>
                   /\ i < Len(trace)
                   /\ trace[i + 1].kind = "sleep"
                   /\ i + 1 < Len(trace) => trace[i + 2].kind = "ocr"
                   /\ i + 1 = Len(trace) => pc = "loop"
        /\ (pc = "raised" /\ res.raised \in TransientClasses) =>
               Len(OcrRequests) = processor.max_retries

RetryFinished == RetryCalled /\ pc \in {"returned", "raised"}

\* What holds of the trace of _process_with_retry at every moment.
RetryTraceShape ==
    /\ Len(OcrRequests) <= processor.max_retries
    /\ \A n \in 1..Len(OcrRequests) : OcrRequests[n].attempt = n - 1
    /\ \A i \in 1..Len(trace) :
          /\ (trace[i].kind = "ocr" /\ trace[i].error = <<>>) =>
                 /\ i = Len(trace)
                 /\ pc = "returned"
                 /\ res = [returned |-> "response", attempt |-> trace[i].attempt]
          /\ (trace[i].kind = "ocr" /\ i < Len(trace)) => trace[i + 1].kind = "sleep"
          /\ trace[i].kind = "sleep" =>
                 /\ i > 1
                 /\ trace[i - 1].kind = "ocr"
                 /\ trace[i - 1].error # <<>>
                 /\ trace[i - 1].attempt = trace[i].attempt
                 /\ trace[i].attempt < processor.max_retries - 1
                 /\ trace[i].time = processor.retry_delay * 2^(trace[i].attempt)
                 /\ i < Len(trace) => trace[i + 1].kind = "ocr"
                 /\ i = Len(trace) => pc = "loop"

\* What holds of a call with max_retries >= 1 that has ended.
RetryOutcome ==
    (RetryFinished /\ processor.max_retries >= 1) =>
        /\ Len(OcrRequests) >= 1
        /\ trace[Len(trace)].kind = "ocr"
        /\ pc = "raised" =>
               /\ trace[Len(trace)].error # <<>>
               /\ res = [raised |-> handle_api_error(trace[Len(trace)].error[1])]

\* C25: _process_with_retry always ends; with max_retries >= 1 it makes between
\* 1 and max_retries OCR attempts, stops at the first success and returns its
\* response, and otherwise raises the class of the last failure; the sleep
\* between failed attempt k and attempt k + 1 is retry_delay * 2^k, and none
\* follows the last attempt or a success.
C25_RetryTerminatesWithBackoff ==
    /\ [](RetryCalled => (RetryTraceShape /\ RetryOutcome))
    /\ (RetryCalled ~> RetryFinished)

\* Four attempts with three sleeps between them, the third twice the second,
\* then success.
C25_Witness ==
    /\ RetryCalled /\ pc = "returned"
    /\ processor.max_retries = 4 /\ processor.retry_delay = 5
    /\ Len(trace) = 7
    /\ trace[2].time = 5 /\ trace[4].time = 10 /\ trace[6].time = 20
    /\ res = [returned |-> "response", attempt |-> 3]

ConstructorCalled == op = "MarkItMistral" /\ pc \in {"raised", "constructed"}

\* The five conditions under which a configuration is invalid.
InvalidConfig(config) ==
    \/ config.mistral_api_key \in {<<>>, <<"">>}
    \/ config.max_retries < 1
    \/ config.retry_delay < 0
    \/ config.max_file_size_mb < 1
    \/ config.log_level \notin {"DEBUG", "INFO", "WARNING", "ERROR", "CRITICAL"}

\* C24: validate raises exactly when the key is missing, max_retries < 1,
\* retry_delay < 0, max_file_size_mb < 1 or the log level is not one of the five
\* names; the construction then fails with no component created and the OCR
\* processor and formatter untouched; a constructed converter has all four
\* components and max_retries >= 1.
C24_InvalidConfigIsFatal ==
    ConstructorCalled =>
        /\ (validate(arg) # <<>>) <=> InvalidConfig(arg)
        /\ InvalidConfig(arg) =>
            /\ pc = "raised"
            /\ res.raised # <<>>
            /\ res.components = <<>>
            /\ processor = [max_retries |-> 3, retry_delay |-> 10, max_file_size_mb |-> 50]
            /\ formatter = [preserve_math |-> TRUE, base64_images |-> FALSE]
        /\ ~InvalidConfig(arg) =>
            /\ pc = "constructed"
            /\ res.raised = <<>>
            /\ Len(res.components) = 4
        /\ pc = "constructed" =>
            /\ arg.max_retries >= 1
            /\ processor.max_retries >= 1

\* A valid configuration whose max_retries was overridden to 0: rejected.
C24_Witness ==
    /\ ConstructorCalled
    /\ pc = "raised"
    /\ arg = [mistral_api_key |-> <<"key">>, max_retries |-> 0, retry_delay |-> 10,
              max_file_size_mb |-> 50, preserve_math |-> TRUE, base64_images |-> FALSE,
              log_level |-> "INFO"]

FixCalled == op = "_fix_common_math_errors" /\ pc = "called"

\* The repaired form of one artifact: white space gone, the index in one pair
\* of braces.
Repaired(f) ==
    IF f = Chars("x ^ 2") THEN Chars("x^{2}")
    ELSE IF f = Chars("x _ 1") THEN Chars("x_{1}")
    ELSE IF f = Chars("\\frac { a } { b }") THEN Chars("\\frac{a}{b}")
    ELSE IF f = Chars("\\sqrt { a }") THEN Chars("\\sqrt{a}")
    ELSE IF f = Chars("\\sum _ { i } ^ { n }") THEN Chars("\\sum_{i}^{n}")
    ELSE f

\* One correction, by its place in the dict.
Correction(n, s) ==
    CASE n = 1 -> FixScripts(s, "^")
      [] n = 2 -> FixScripts(s, "_")
      [] n = 3 -> FixFractions(s)
      [] n = 4 -> FixSquareRoots(s)
      [] OTHER -> FixSummations(s)

\* The five corrections applied in the order given.
CorrectionsInOrder(s, order) ==
    Then(Then(Then(Then(Correction(order[1], s),
                        LAMBDA c : Correction(order[2], c)),
                   LAMBDA c : Correction(order[3], c)),
              LAMBDA c : Correction(order[4], c)),
         LAMBDA c : Correction(order[5], c))

CorrectionOrders == {o \in [1..5 -> 1..5] : \A n \in 1..5 : \E k \in 1..5 : o[k] = n}

\* C26: each of the five artifacts comes out with its white space removed and
\* its index in one pair of braces, nothing else changes, and the result does
\* not depend on the order of the five corrections.
C26_ArtifactsRepaired ==
    FixCalled =>
        /\ res = Flatten([k \in 1..Len(span) |-> Repaired(span[k])])
        /\ \A o \in CorrectionOrders : CorrectionsInOrder(arg, o) = res

\* C27: the repair keeps the number of lines; a line with fewer than two "|"
\* comes out as it is and any other line as its repaired row (as it is when it
\* has no cell), so a blank line after a table stays a single blank line; the
\* repair of a repaired text changes nothing.
C27_LinesKeptInPlace ==
    /\ TableCalled =>
           Split(res, "\n") =
               [k \in 1..Len(Split(arg, "\n")) |->
                   LET line == Split(arg, "\n")[k]
                   IN  IF CountChar(line, "|") >= 2 /\ CellsOf(line) # <<>>
                       THEN RowOf(CellsOf(line))
                       ELSE line]
    /\ (op = "_fix_table_formatting" /\ pc = "recalled") => res2 = res

ProcessCalled == op \in {"process_pdf", "process_image", "_process_with_retry"}

\* C28: a file that exists and is larger than max_file_size_mb is rejected by
\* process_pdf and by process_image with no OCR request issued, and the text of
\* the raised error holds the path of the file.
C28_OversizedRejectedWithPath ==
    (ProcessCalled /\ arg.file.exists /\ arg.file.size > processor.max_file_size_mb * MiB) =>
        /\ op = arg.caller
        /\ pc = "raised"
        /\ trace = <<>>
        /\ IsSubstring(arg.file.path, res.str)

ExtractCalled == op = "extract_images"

\* The images of the response in page order then image order, each with the
\* index (0-based) of its page.
ResponseImages ==
    Flatten([p \in 1..Len(arg.response.pages) |->
                [k \in 1..Len(arg.response.pages[p].images) |->
                    [image |-> arg.response.pages[p].images[k], pidx |-> p - 1]]])

\* An image that carries data, decodes, and is taken by the disk.
Savable(image) ==
    /\ CarriesData(image)
    /\ image_data(image.image_base64[1]) # <<>>
    /\ image.disk = "ok"

\* The <<path, bytes>> of the savable images among the first n, in order.
RECURSIVE SavedOf(_, _)
SavedOf(images, n) ==
    IF n = 0 THEN <<>>
    ELSE LET before == SavedOf(images, n - 1)
             image == images[n].image
         IN  IF Savable(image)
             THEN Append(before,
                         <<arg.output_dir \o <<"/">> \o
                               (IF image.id # <<>> THEN image.id[1]
                                ELSE Chars("page_") \o IntText(images[n].pidx + 1)
                                         \o Chars("_image_") \o IntText(Len(before) + 1)
                                         \o Chars(".jpg")),
                           image_data(image.image_base64[1])[1]>>)
             ELSE before

\* The number of images the loop is past.
ImagesDone ==
    Len(Flatten([p \in 1..Min(page_idx, Len(arg.response.pages)) |->
                    arg.response.pages[p].images]))
        + image_idx

\* The extraction never ends in an error; the list holds the paths of the
\* savable images the loop is past, in page order then image order, and each of
\* them is on the disk with its bytes; the list returned is that of all of them.
ExtractionState ==
    ExtractCalled =>
        /\ pc \in {"loop", "returned"}
        /\ LET expected == SavedOf(ResponseImages,
                                   IF pc = "returned" THEN Len(ResponseImages) ELSE ImagesDone)
           IN  /\ saved_images = [k \in 1..Len(expected) |-> expected[k][1]]
               /\ \A k \in 1..Len(expected) :
                      /\ DictHas(files, expected[k][1])
                      /\ DictGet(files, expected[k][1]) = expected[k][2]
        /\ pc = "returned" => res = saved_images

\* A step removes no path from the list and leaves every saved file as it is.
NoSavedImageUndone ==
    (ExtractCalled /\ op' = op) =>
        /\ Len(saved_images') >= Len(saved_images)
        /\ \A k \in 1..Len(saved_images) :
               /\ saved_images'[k] = saved_images[k]
               /\ DictHas(files', saved_images[k])
               /\ DictGet(files', saved_images[k]) = DictGet(files, saved_images[k])

\* C29: an image that fails to decode or to be written neither ends the
\* extraction nor undoes an earlier write; every other image with data is
\* written, and the list returned is that of the saved paths in page order
\* then image order.
C29_FailureSkipsOneImage == []ExtractionState /\ [][NoSavedImageUndone]_vars

\* Three images with data, the second of which cannot be decoded: the first and
\* the third are saved and returned.
C29_Witness ==
    /\ ExtractCalled /\ pc = "returned"
    /\ Len(ResponseImages) = 3
    /\ Savable(ResponseImages[1].image)
    /\ CarriesData(ResponseImages[2].image) /\ ~Savable(ResponseImages[2].image)
    /\ Savable(ResponseImages[3].image)
    /\ Len(res) = 2
    /\ Len(files) >= 2

\* The positions of the image references of a text.
RefsAt(s) == {i \in 1..Len(s) : ImageRefMatch(s, i) # <<>>}

\* The targets of the image references of a text.
RefTargets(s) ==
    {SubSeq(s, ImageRefMatch(s, i)[1] + 2, ImageRefMatch(s, i)[2] - 1) : i \in RefsAt(s)}

\* C30: the math step of a page leaves the targets of its image references as
\* the OCR emitted them, and a reference whose target matches no known
\* identifier stands in the assembled document as it stood in the page.
C30_MathLeavesImageTargets ==
    (op = "format_document" /\ pc = "done") =>
        \A k \in 1..Len(pages) :
            HasMarkdown(pages[k]) =>
                /\ formatter.preserve_math =>
                       RefTargets(_process_math_equations(pages[k][1])) = RefTargets(pages[k][1])
                /\ \A i \in RefsAt(pages[k][1]) :
                       LET m == ImageRefMatch(pages[k][1], i)
                           target == SubSeq(pages[k][1], m[1] + 2, m[2] - 1)
                       IN  (ExactMatches(target, image_map) = {}
                                /\ PartialMatches(target, image_map) = {}) =>
                               IsSubstring(SubSeq(pages[k][1], i, m[2]), res)

====
